---- MODULE Spec2Model ----
(***************************************************************************)
(* The document pipeline of sci-phi: the processed_pdfs table              *)
(* (fastapi_app/database.py), the download handler (processor.py,          *)
(* main.py), the conversion and extraction stage runners and queue drains  *)
(* (conversion_service.py, extraction_service.py) and the recovery sweep   *)
(* run by the FastAPI lifespan (main.py).                                  *)
(*                                                                         *)
(* Scheduling: one asyncio event loop.  A coroutine runs without           *)
(* interruption from other coroutines between two awaits; the only         *)
(* handler that changes state from a worker thread is DELETE /pdfs (a      *)
(* plain def endpoint), and the process can be killed at any point.        *)
(***************************************************************************)
EXTENDS Integers, Sequences, FiniteSets, TLC

(***************************************************************************)
(* Bounds of the model.                                                    *)
(***************************************************************************)
\* Rows ever inserted (the highest AUTOINCREMENT id).
MaxId == 2
\* Conversions ever completed.
MaxCompletions == 1
\* Coroutines alive at once on the event loop.
MaxTasks == 2

Uris == {"http://x/a.pdf", "http://y/b"}
\* Two locators on different hosts whose paths end in the same file name.
SameNameUris == {"http://x/a.pdf", "http://z/a.pdf"}
Contents == {"bytes1", "bytes2"}

(***************************************************************************)
(* Values.                                                                 *)
(***************************************************************************)
NULL == "NULL"
\* A timestamp column that holds NULL.
NoTime == 0
\* Timestamps are datetime.now().  No statement compares the times of two
\* different columns.  processed_at holds the rank of the row's INSERT among
\* all INSERTs (the n-th row inserted has processed_at n).  The stage
\* columns hold the time on a clock that the completion of a conversion
\* advances: a start marked after a completion carries a later time than
\* any start marked before it.

\* conversion_error / extraction_error strings: the runner's prefix and
\* the text of the exception it caught.
ConvNotFoundMsg == "Error converting PDF: PDF not found in database"
ConvNoFileMsg == "Error converting PDF: PDF file not found"
ConvEngineMsg == "Error converting PDF: convert_pdf raised"
ConvWriteMsg == "Error converting PDF: writing the output failed"
ConvInterruptedMsg == "Conversion interrupted by server restart - will retry"
ExtrInterruptedMsg == "Extraction interrupted by server restart - will retry"
NotPdfMsg == "URL does not point to a PDF resource"
FetchErrorMsg == "Error accessing URL"

ExtrErrorMsg(kind, cause) ==
    CASE kind = "extract_selective" /\ cause = "not_found" ->
             "Error in selective extraction from PDF: PDF not found in database"
      [] kind = "extract_selective" /\ cause = "not_converted" ->
             "Error in selective extraction from PDF: PDF must be converted before extraction"
      [] kind = "extract_selective" /\ cause = "no_text" ->
             "Error in selective extraction from PDF: Text file not found for extraction"
      [] kind = "extract_selective" /\ cause = "import" ->
             "Error in selective extraction from PDF: cannot import name TEXT_PROCESSING_STRATEGY"
      [] kind # "extract_selective" /\ cause = "not_found" ->
             "Error extracting from PDF: PDF not found in database"
      [] kind # "extract_selective" /\ cause = "not_converted" ->
             "Error extracting from PDF: PDF must be converted before extraction"
      [] kind # "extract_selective" /\ cause = "no_text" ->
             "Error extracting from PDF: Text file not found for extraction"
      [] kind # "extract_selective" /\ cause = "import" ->
             "Error extracting from PDF: cannot import name TEXT_PROCESSING_STRATEGY"

\* hashlib.sha256 of the locator / of the file bytes (collision-free on the
\* values of the model).
hash_uri(uri) ==
    CASE uri = "http://x/a.pdf" -> "sha256:x/a"
      [] uri = "http://y/b" -> "sha256:y/b"
      [] uri = "http://z/a.pdf" -> "sha256:z/a"
      [] OTHER -> "sha256:"

Sha256OfBytes(c) ==
    CASE c = "bytes1" -> "sha256:1"
      [] c = "bytes2" -> "sha256:2"

\* process_pdf's file name: os.path.basename(urlparse(uri).path), or
\* pdf_<hash(uri) % 10000>.pdf when that does not end in .pdf.
FileNameOf(uri) ==
    CASE uri = "http://x/a.pdf" -> "a.pdf"
      [] uri = "http://y/b" -> "pdf_7.pdf"
      [] uri = "http://z/a.pdf" -> "a.pdf"

\* path.endswith('.pdf') on the locator's path.
HasPdfExtension(uri) == uri \in {"http://x/a.pdf", "http://z/a.pdf"}

\* Paths as stored in the table: relative to BASE_DIR (make_path_relative
\* of a path under DATA_DIR).  resolve_file_path names the file under
\* BASE_DIR; a stored path used as it is names a file under the working
\* directory of the server.
get_pdf_file_path(filename) ==
    CASE filename = "a.pdf" -> "data/a.pdf"
      [] filename = "pdf_7.pdf" -> "data/pdf_7.pdf"
      [] filename = "" -> "data"

get_pdf_text_file_path(filename) ==
    CASE filename = "a.pdf" -> "data/a/a.txt"
      [] filename = "pdf_7.pdf" -> "data/pdf_7/pdf_7.txt"
      [] filename = "" -> "data/.txt"

get_pdf_images_folder_path(filename) ==
    CASE filename = "a.pdf" -> "data/a/images"
      [] filename = "pdf_7.pdf" -> "data/pdf_7/images"
      [] filename = "" -> "data/images"

ExtractionFilePath(filename) ==
    CASE filename = "a.pdf" -> "data/a/extraction/extracted_data.json"
      [] filename = "pdf_7.pdf" -> "data/pdf_7/extraction/extracted_data.json"
      [] filename = "" -> "data/extraction/extracted_data.json"

VARIABLES
    rows,       \* the processed_pdfs table: a set of row records
    seq,        \* sqlite_sequence of processed_pdfs (AUTOINCREMENT)
    clock,      \* conversions completed so far
    files,      \* paths that exist under BASE_DIR, with their content
    tasks,      \* coroutines alive on the event loop
    phase,      \* "boot_conv", "boot_extr" (lifespan startup) or "serving"
    resp,       \* the response of POST /pdfs, when the step just taken sent one
    result,     \* what a stage runner, a queue drain or delete_processed_pdf
                \* returned, when one returned in the step just taken
    triggered,  \* how the scheduling of the follow-on extraction ended, when
                \* the step just taken tried it
    cwd,        \* the working directory the server was started in: "base"
                \* (BASE_DIR, as start_dev.py does) or "elsewhere"
    arg,        \* the argument of the helper function under study, if any
    ret,        \* the helper called on arg and the value it returned
    http        \* how a manual trigger endpoint answered in the step just
                \* taken, when requests are traced

vars == <<rows, seq, clock, files, tasks, phase, resp, result, triggered, cwd, arg, ret, http>>

(***************************************************************************)
(* The table.                                                              *)
(***************************************************************************)
\* A row as INSERT leaves it: the columns the statement names, the others
\* at their DEFAULT (init_database).
NewRow(id, uri, content_hash, filename, file_path, is_downloaded, processed_at, status, error_message) ==
    [id |-> id, uri |-> uri, uri_hash |-> hash_uri(uri),
     content_hash |-> content_hash, filename |-> filename,
     file_path |-> file_path, is_downloaded |-> is_downloaded,
     processed_at |-> processed_at, status |-> status,
     error_message |-> error_message,
     is_converted |-> FALSE, conversion_started_at |-> NoTime,
     conversion_completed_at |-> NoTime, conversion_error |-> NULL,
     text_file_path |-> NULL, images_folder_path |-> NULL,
     is_extracted |-> FALSE, extraction_started_at |-> NoTime,
     extraction_completed_at |-> NoTime, extraction_error |-> NULL,
     extraction_file_path |-> NULL]

\* What a query returns when no row matches (None).
NoRow == NewRow(0, "", NULL, "", "", FALSE, NoTime, "none", NULL)

\* cursor.fetchone() on a result set: one of its rows, or None.  The
\* statements give no ORDER BY; SQLite walks the table by rowid.
FetchOne(matching) ==
    IF matching = {} THEN NoRow
    ELSE CHOOSE r \in matching : \A q \in matching : r.id <= q.id

\* A variant of check_uri_exists that compares the stored digest with the
\* locator itself instead of its digest.
check_uri_exists_unhashed(rs, uri) ==
    FetchOne({r \in rs : r.uri_hash = uri /\ r.is_downloaded
                           /\ r.status = "success"})

check_uri_exists(rs, uri) ==
    FetchOne({r \in rs : r.uri_hash = hash_uri(uri) /\ r.is_downloaded
                           /\ r.status = "success"})

check_content_exists(rs, content_hash) ==
    FetchOne({r \in rs : r.content_hash = content_hash /\ r.is_downloaded
                           /\ r.status = "success"})

get_processed_pdf(rs, uri) == FetchOne({r \in rs : r.uri = uri})

get_processed_pdf_by_id(rs, paper_id) == FetchOne({r \in rs : r.id = paper_id})

\* Path(p).exists(): the empty stored path resolves to BASE_DIR itself.
PathExists(fs, p) ==
    \/ p = ""
    \/ p \in DOMAIN fs /\ fs[p] # "absent"

\* hash_file_content: the digest of the bytes, None when the file cannot be
\* opened (a directory, a missing file).
hash_file_content(fs, p) ==
    IF p \in DOMAIN fs /\ fs[p] \in Contents
    THEN Sha256OfBytes(fs[p]) ELSE NULL

\* The data directory as a stored (relative) path reaches it without
\* resolve_file_path: the files under BASE_DIR when the server runs there,
\* nothing otherwise.
FromCwd(fs) == IF cwd = "base" THEN fs ELSE [p \in DOMAIN fs |-> "absent"]

\* A variant of store_processed_pdf that is a plain INSERT on a table whose
\* uri column is not UNIQUE: the row with the same uri stays.
store_processed_pdf_insert_only(rs, id, fs, uri, filename, file_path, is_downloaded, status, error_message) ==
    LET content_hash ==
            IF is_downloaded /\ status = "success" /\ PathExists(fs, file_path)
            THEN hash_file_content(fs, file_path) ELSE NULL
    IN  rs \cup
        {NewRow(id, uri, content_hash, filename, file_path, is_downloaded,
                id, status, error_message)}

\* A variant of store_processed_pdf that is an upsert (ON CONFLICT(uri) DO
\* UPDATE) of the columns the statement names: the row keeps its id and a
\* NULL error_message does not overwrite the stored one.
store_processed_pdf_upsert(rs, id, fs, uri, filename, file_path, is_downloaded, status, error_message) ==
    LET content_hash ==
            IF is_downloaded /\ status = "success" /\ PathExists(fs, file_path)
            THEN hash_file_content(fs, file_path) ELSE NULL
        old == {r \in rs : r.uri = uri}
    IN  IF old = {}
        THEN rs \cup {NewRow(id, uri, content_hash, filename, file_path,
                             is_downloaded, id, status, error_message)}
        ELSE {IF r.uri = uri
              THEN [r EXCEPT !.content_hash = content_hash, !.filename = filename,
                             !.file_path = file_path,
                             !.is_downloaded = is_downloaded,
                             !.processed_at = id, !.status = status,
                             !.error_message = IF error_message = NULL
                                               THEN r.error_message
                                               ELSE error_message]
              ELSE r : r \in rs}

\* INSERT OR REPLACE: uri is UNIQUE, so a row with the same uri is deleted
\* before the new row is inserted under the next AUTOINCREMENT id.
store_processed_pdf(rs, id, fs, uri, filename, file_path, is_downloaded, status, error_message) ==
    LET content_hash ==
            IF is_downloaded /\ status = "success" /\ PathExists(fs, file_path)
            THEN hash_file_content(fs, file_path) ELSE NULL
    IN  {r \in rs : r.uri # uri} \cup
        {NewRow(id, uri, content_hash, filename, file_path, is_downloaded,
                id, status, error_message)}

\* A variant of update_conversion_status whose error branch also puts the
\* row back to pending: it clears the start time.
update_conversion_status_error_resets_start(rs, now, uri, is_converted, conversion_started, conversion_error, text_file_path, images_folder_path) ==
    IF conversion_started /\ ~is_converted THEN
        {IF r.uri = uri
         THEN [r EXCEPT !.conversion_started_at = now, !.conversion_error = NULL]
         ELSE r : r \in rs}
    ELSE IF is_converted THEN
        {IF r.uri = uri
         THEN [r EXCEPT !.is_converted = TRUE, !.conversion_completed_at = now,
                        !.text_file_path = text_file_path,
                        !.images_folder_path = images_folder_path,
                        !.conversion_error = NULL]
         ELSE r : r \in rs}
    ELSE IF conversion_error # NULL THEN
        {IF r.uri = uri
         THEN [r EXCEPT !.conversion_error = conversion_error,
                        !.conversion_started_at = NoTime]
         ELSE r : r \in rs}
    ELSE rs

\* A variant of update_conversion_status whose completed branch treats a
\* second completion of the same row as an error.
update_conversion_status_complete_strict(rs, now, uri, is_converted, conversion_started, conversion_error, text_file_path, images_folder_path) ==
    IF conversion_started /\ ~is_converted THEN
        {IF r.uri = uri
         THEN [r EXCEPT !.conversion_started_at = now, !.conversion_error = NULL]
         ELSE r : r \in rs}
    ELSE IF is_converted THEN
        {IF r.uri = uri
         THEN [r EXCEPT !.is_converted = TRUE, !.conversion_completed_at = now,
                        !.text_file_path = text_file_path,
                        !.images_folder_path = images_folder_path,
                        !.conversion_error = IF r.is_converted
                                             THEN "PDF is already converted"
                                             ELSE NULL]
         ELSE r : r \in rs}
    ELSE IF conversion_error # NULL THEN
        {IF r.uri = uri THEN [r EXCEPT !.conversion_error = conversion_error]
         ELSE r : r \in rs}
    ELSE rs

\* A variant of update_conversion_status whose completed branch sets the
\* flag and the time and leaves the two output paths as they are.
update_conversion_status_flag_only(rs, now, uri, is_converted, conversion_started, conversion_error, text_file_path, images_folder_path) ==
    IF conversion_started /\ ~is_converted THEN
        {IF r.uri = uri
         THEN [r EXCEPT !.conversion_started_at = now, !.conversion_error = NULL]
         ELSE r : r \in rs}
    ELSE IF is_converted THEN
        {IF r.uri = uri
         THEN [r EXCEPT !.is_converted = TRUE, !.conversion_completed_at = now,
                        !.conversion_error = NULL]
         ELSE r : r \in rs}
    ELSE IF conversion_error # NULL THEN
        {IF r.uri = uri THEN [r EXCEPT !.conversion_error = conversion_error]
         ELSE r : r \in rs}
    ELSE rs

\* A variant of update_conversion_status whose started branch has no WHERE
\* clause: it marks every row.
update_conversion_status_no_where(rs, now, uri, is_converted, conversion_started, conversion_error, text_file_path, images_folder_path) ==
    IF conversion_started /\ ~is_converted THEN
        {[r EXCEPT !.conversion_started_at = now, !.conversion_error = NULL] : r \in rs}
    ELSE IF is_converted THEN
        {IF r.uri = uri
         THEN [r EXCEPT !.is_converted = TRUE, !.conversion_completed_at = now,
                        !.text_file_path = text_file_path,
                        !.images_folder_path = images_folder_path,
                        !.conversion_error = NULL]
         ELSE r : r \in rs}
    ELSE IF conversion_error # NULL THEN
        {IF r.uri = uri THEN [r EXCEPT !.conversion_error = conversion_error]
         ELSE r : r \in rs}
    ELSE rs

\* UPDATE ... WHERE uri = ?, one branch per call shape.
update_conversion_status(rs, now, uri, is_converted, conversion_started, conversion_error, text_file_path, images_folder_path) ==
    IF conversion_started /\ ~is_converted THEN
        {IF r.uri = uri
         THEN [r EXCEPT !.conversion_started_at = now, !.conversion_error = NULL]
         ELSE r : r \in rs}
    ELSE IF is_converted THEN
        {IF r.uri = uri
         THEN [r EXCEPT !.is_converted = TRUE, !.conversion_completed_at = now,
                        !.text_file_path = text_file_path,
                        !.images_folder_path = images_folder_path,
                        !.conversion_error = NULL]
         ELSE r : r \in rs}
    ELSE IF conversion_error # NULL THEN
        {IF r.uri = uri THEN [r EXCEPT !.conversion_error = conversion_error]
         ELSE r : r \in rs}
    ELSE rs

\* A variant of update_extraction_status whose error branch is an upsert:
\* it inserts a row to hold the error when the locator has none.
update_extraction_status_upsert(rs, now, uri, is_extracted, extraction_started, extraction_error, extraction_file_path) ==
    IF extraction_started /\ ~is_extracted THEN
        {IF r.uri = uri
         THEN [r EXCEPT !.extraction_started_at = now, !.extraction_error = NULL]
         ELSE r : r \in rs}
    ELSE IF is_extracted THEN
        {IF r.uri = uri
         THEN [r EXCEPT !.is_extracted = TRUE, !.extraction_completed_at = now,
                        !.extraction_file_path = extraction_file_path,
                        !.extraction_error = NULL]
         ELSE r : r \in rs}
    ELSE IF extraction_error # NULL THEN
        IF \E r \in rs : r.uri = uri
        THEN {IF r.uri = uri THEN [r EXCEPT !.extraction_error = extraction_error]
              ELSE r : r \in rs}
        ELSE rs \cup {[NewRow(0, uri, NULL, "", "", FALSE, 0, "error", NULL)
                         EXCEPT !.extraction_error = extraction_error]}
    ELSE rs

update_extraction_status(rs, now, uri, is_extracted, extraction_started, extraction_error, extraction_file_path) ==
    IF extraction_started /\ ~is_extracted THEN
        {IF r.uri = uri
         THEN [r EXCEPT !.extraction_started_at = now, !.extraction_error = NULL]
         ELSE r : r \in rs}
    ELSE IF is_extracted THEN
        {IF r.uri = uri
         THEN [r EXCEPT !.is_extracted = TRUE, !.extraction_completed_at = now,
                        !.extraction_file_path = extraction_file_path,
                        !.extraction_error = NULL]
         ELSE r : r \in rs}
    ELSE IF extraction_error # NULL THEN
        {IF r.uri = uri THEN [r EXCEPT !.extraction_error = extraction_error]
         ELSE r : r \in rs}
    ELSE rs

\* A variant of the WHERE clause that tests the start time only.
InterruptedConversion_started_only(r) ==
    /\ r.conversion_started_at # NoTime
    /\ r.is_downloaded
    /\ r.status = "success"

\* The WHERE clause of reset_interrupted_conversions (SELECT and UPDATE).
InterruptedConversion(r) ==
    /\ r.conversion_started_at # NoTime
    /\ r.conversion_completed_at = NoTime
    /\ ~r.is_converted
    /\ r.is_downloaded
    /\ r.status = "success"

\* reset_interrupted_conversions returns len(interrupted_pdfs), the rows
\* its SELECT fetched.
ResetConversionsCount(rs) == Cardinality({r \in rs : InterruptedConversion(r)})

reset_interrupted_conversions(rs) ==
    {IF InterruptedConversion(r)
     THEN [r EXCEPT !.conversion_started_at = NoTime,
                    !.conversion_error = ConvInterruptedMsg]
     ELSE r : r \in rs}

\* The WHERE clause of reset_interrupted_extractions.
InterruptedExtraction(r) ==
    /\ r.extraction_started_at # NoTime
    /\ r.extraction_completed_at = NoTime
    /\ ~r.is_extracted
    /\ r.is_converted

ResetExtractionsCount(rs) == Cardinality({r \in rs : InterruptedExtraction(r)})

reset_interrupted_extractions(rs) ==
    {IF InterruptedExtraction(r)
     THEN [r EXCEPT !.extraction_started_at = NoTime,
                    !.extraction_error = ExtrInterruptedMsg]
     ELSE r : r \in rs}

\* A result set in ORDER BY processed_at ASC, as a sequence of rows (rows
\* with equal keys in rowid order).
RECURSIVE OrderByProcessedAt(_)
OrderByProcessedAt(set) ==
    IF set = {} THEN <<>>
    ELSE LET first == CHOOSE r \in set :
                          \A q \in set :
                              \/ r.processed_at < q.processed_at
                              \/ r.processed_at = q.processed_at /\ r.id <= q.id
         IN  <<first>> \o OrderByProcessedAt(set \ {first})

\* A result set in ORDER BY conversion_completed_at ASC.
RECURSIVE OrderByConversionCompletedAt(_)
OrderByConversionCompletedAt(set) ==
    IF set = {} THEN <<>>
    ELSE LET first == CHOOSE r \in set :
                          \A q \in set :
                              \/ r.conversion_completed_at < q.conversion_completed_at
                              \/ /\ r.conversion_completed_at = q.conversion_completed_at
                                 /\ r.id <= q.id
         IN  <<first>> \o OrderByConversionCompletedAt(set \ {first})

\* A variant of get_pdfs_for_conversion that lists only rows no runner has
\* started.
get_pdfs_for_conversion_not_started(rs) ==
    OrderByProcessedAt({r \in rs : r.is_downloaded /\ r.status = "success"
                                    /\ ~r.is_converted
                                    /\ r.conversion_started_at = NoTime})

\* A variant of get_pdfs_for_conversion with ORDER BY processed_at DESC.
get_pdfs_for_conversion_newest_first(rs) ==
    LET asc == OrderByProcessedAt({r \in rs : r.is_downloaded /\ r.status = "success"
                                                /\ ~r.is_converted})
    IN  [i \in 1..Len(asc) |-> asc[Len(asc) + 1 - i]]

get_pdfs_for_conversion(rs) ==
    OrderByProcessedAt({r \in rs : r.is_downloaded /\ r.status = "success"
                                    /\ ~r.is_converted})

get_pdfs_for_extraction(rs) ==
    OrderByConversionCompletedAt(
        {r \in rs : r.is_downloaded /\ r.status = "success"
                     /\ r.is_converted /\ ~r.is_extracted})

(***************************************************************************)
(* The file system under BASE_DIR.                                         *)
(***************************************************************************)
FileNames == {FileNameOf(u) : u \in Uris}

AllPaths ==
    UNION {{get_pdf_file_path(n), get_pdf_text_file_path(n),
            get_pdf_images_folder_path(n), ExtractionFilePath(n)} : n \in FileNames}

\* os.remove / shutil.rmtree of a stored path, guarded as in
\* delete_processed_pdf: `if p and Path(p).exists()`.
RemoveIfExists(fs, p) ==
    IF p # NULL /\ p # "" /\ p \in DOMAIN fs THEN [fs EXCEPT ![p] = "absent"] ELSE fs

(***************************************************************************)
(* Coroutines on the event loop.                                           *)
(*   kind    "convert" | "extract" | "extract_selective" |                 *)
(*           "convert_queue" | "extract_queue"                             *)
(*   origin  "request" (an endpoint awaits it), "background"               *)
(*           (BackgroundTasks / asyncio.create_task), "lifespan"           *)
(*   pc      "start"  created, not yet run                                 *)
(*           "exec"   convert_pdf_async awaits run_in_executor             *)
(*           "body"   extract_pdf_async has marked the start and has not   *)
(*                    yet returned (one synchronous run: visible to the    *)
(*                    delete thread and to a kill only)                    *)
(*           "sleep"  a queue drain awaits asyncio.sleep(1)                *)
(*   uri     the locator the runner works on                               *)
(*   pending the rest of a drain's fetched list                            *)
(*   fetched the list a drain fetched (`pending_pdfs`)                     *)
(*   results a drain's `results`: its runners' outcomes so far             *)
(*   filename  the runner's local `filename` (read from the row)           *)
(*   slot    tells apart two coroutines in the same position               *)
(***************************************************************************)
Task(slot, kind, origin, pc, uri, pending, filename) ==
    [slot |-> slot, kind |-> kind, origin |-> origin, pc |-> pc, uri |-> uri,
     pending |-> pending, filename |-> filename, fetched |-> <<>>,
     results |-> <<>>]

HasRoom(ts) == Cardinality(ts) < MaxTasks

FreeSlot(ts) ==
    CHOOSE i \in 1..MaxTasks :
        /\ \A t \in ts : t.slot # i
        /\ \A j \in 1..(i - 1) : \E t \in ts : t.slot = j

\* A variant that creates no coroutine for a background task.
Spawn_requests_only(ts, kind, origin, pc, uri, filename) ==
    IF origin = "background"
    THEN ts
    ELSE ts \cup {Task(FreeSlot(ts), kind, origin, pc, uri, <<>>, filename)}

\* asyncio.create_task / BackgroundTasks.add_task / a call awaited by an
\* endpoint: one more coroutine.
Spawn(ts, kind, origin, pc, uri, filename) ==
    ts \cup {Task(FreeSlot(ts), kind, origin, pc, uri, <<>>, filename)}

\* No coroutine is in the middle of a synchronous run.
LoopFree == \A t \in tasks : t.pc # "body"

\* datetime.now() on the clock of the stage columns.
Now == clock + 1

\* What POST /pdfs answers: the locator, the outcome, the row it quotes
\* (existing_record / original_record) and database_id.
Response(uri, body, record, database_id) ==
    [uri |-> uri, body |-> body, record |-> record, database_id |-> database_id]

NoResponse == Response("", "none", NoRow, 0)

UrisOf(rowseq) == [i \in 1..Len(rowseq) |-> rowseq[i].uri]

\* The dict a stage runner returns ("success", "uri"; kind tells the runner),
\* and the list a drain returns (kind is the drain's, outcomes its results).
Result(kind, uri, success, outcomes) ==
    [kind |-> kind, uri |-> uri, success |-> success, outcomes |-> outcomes]

RunnerResult(kind, uri, success) == Result(kind, uri, success, <<>>)

NoResult == Result("none", "", FALSE, <<>>)

\* The call of a stage runner that a trigger endpoint awaits.
Call(runner, uri, fields, models) ==
    [runner |-> runner, uri |-> uri, fields |-> fields, models |-> models]

NoCall == Call("", "", <<>>, <<>>)

\* The answer of a trigger endpoint: the status of the HTTPException it
\* raised, or status 200 with its body ("already_converted", or "runner":
\* the dict of the runner it called and awaits).
Http(endpoint, status, body, call) ==
    [endpoint |-> endpoint, status |-> status, body |-> body, call |-> call]

NoHttp == Http("none", 0, "", NoCall)

\* Requests are not traced.
Untraced == Http("untraced", 0, "", NoCall)

Traced(h) == IF http = Untraced THEN Untraced ELSE h

\* get_processed_pdf raising (the database is locked, say) changes nothing
\* but the answer, so the failure is drawn only when answers are traced.
StoreFailures == IF http = Untraced THEN {FALSE} ELSE BOOLEAN

\* get_extraction_template(): the titles of its fields (the summary types,
\* then the questions) and the names of its models, two fields here.
TemplateFields == <<"abstract", "What is the problem solved by this paper?">>

TemplateModels ==
    <<"deepseek-r1:14b", "granite3.2:8b", "phi4:14b", "llama3-chatqa:8b", "qwen3:14b">>

\* SelectiveExtractionRequest; selected_models None or [] is <<>>.
SelectiveExtractionRequest(selected_fields, selected_models) ==
    [selected_fields |-> selected_fields, selected_models |-> selected_models]

NoRequest == SelectiveExtractionRequest(<<>>, <<>>)

SelectiveRequests ==
    {SelectiveExtractionRequest(<<"abstract">>, <<>>),
     SelectiveExtractionRequest(<<"abstract">>, <<"phi4:14b">>),
     SelectiveExtractionRequest(<<"abstract", "title">>, <<>>),
     SelectiveExtractionRequest(<<"abstract">>, <<"phi4:14b", "model1">>)}

NotIn(names, allowed) ==
    SelectSeq(names, LAMBDA x : \A i \in 1..Len(allowed) : allowed[i] # x)

\* convert_single_pdf: the status it refuses with, 0 when it does not.
ConvertRefusal_missing_only(pdf) ==
    IF pdf = NoRow THEN 404
    ELSE 0

ConvertRefusal(pdf) ==
    IF pdf = NoRow THEN 404
    ELSE IF ~pdf.is_downloaded \/ pdf.status # "success" THEN 400
    ELSE 0

\* extract_single_pdf
ExtractRefusal(pdf) ==
    IF pdf = NoRow THEN 404
    ELSE IF ~pdf.is_converted THEN 400
    ELSE 0

\* A variant of extract_selective_pdf that validates the fields alone.
SelectiveRefusal_fields_only(pdf, request) ==
    IF ExtractRefusal(pdf) # 0 THEN ExtractRefusal(pdf)
    ELSE IF NotIn(request.selected_fields, TemplateFields) # <<>> THEN 400
    ELSE 0

\* extract_selective_pdf: the checks of extract_single_pdf, then the
\* fields, then the models when some are given.
SelectiveRefusal(pdf, request) ==
    IF ExtractRefusal(pdf) # 0 THEN ExtractRefusal(pdf)
    ELSE IF NotIn(request.selected_fields, TemplateFields) # <<>> THEN 400
    ELSE IF /\ request.selected_models # <<>>
            /\ NotIn(request.selected_models, TemplateModels) # <<>> THEN 400
    ELSE 0

selected_models(request) ==
    IF request.selected_models # <<>> THEN request.selected_models
    ELSE TemplateModels

\* The attempt of convert_pdf_async to schedule extract_pdf_async(uri):
\* scheduled, or not (trigger_extraction_background returned False, or the
\* import raised and the runner logged the warning).
Trigger(uri, scheduled) == [uri |-> uri, scheduled |-> scheduled]

NoTrigger == Trigger("", FALSE)

\* The runner a coroutine of this kind runs.
RunnerOf(kind) ==
    CASE kind = "convert_queue" -> "convert"
      [] kind = "extract_queue" -> "extract"
      [] OTHER -> kind

(***************************************************************************)
(* Startup: the lifespan context manager.  No request is served before it  *)
(* yields, and the tasks it creates first run after it yields.             *)
(***************************************************************************)
\* A variant of the lifespan's test that also passes a count of zero.
ShouldRestart_always(count) == count >= 0

\* `if interrupted_count > 0:` (and the same test for extractions).
ShouldRestart(count) == count > 0

WorkingDirs == {"base", "elsewhere"}

\* The server is started from its own directory (start_dev.py changes to it
\* before it runs uvicorn main:app).

\* No helper function is under study while the server runs.
NoArg == [root |-> "", segs |-> <<>>]

Out(op, value) == [op |-> op, value |-> value]

NoOut == Out("none", NoArg)

Init ==
    /\ rows = {}
    /\ seq = 0
    /\ clock = 0
    /\ files = [p \in AllPaths |-> "absent"]
    /\ tasks = {}
    /\ phase = "boot_conv"
    /\ resp = NoResponse
    /\ result = NoResult
    /\ triggered = NoTrigger
    /\ cwd = "base"
    /\ arg = NoArg
    /\ ret = NoOut
    /\ http = Untraced

LifespanResetConversions ==
    /\ phase = "boot_conv"
    /\ UNCHANGED <<cwd, arg, ret>>
    /\ http' = Traced(NoHttp)
    /\ LET count == ResetConversionsCount(rows)
       IN  /\ rows' = reset_interrupted_conversions(rows)
           /\ tasks' = IF ShouldRestart(count)
                       THEN Spawn(tasks, "convert_queue", "lifespan", "start", "", "")
                       ELSE tasks
    /\ phase' = "boot_extr"
    /\ UNCHANGED <<seq, clock, files>>
    /\ resp' = NoResponse
    /\ triggered' = NoTrigger
    /\ result' = NoResult

LifespanResetExtractions ==
    /\ phase = "boot_extr"
    /\ UNCHANGED <<cwd, arg, ret>>
    /\ http' = Traced(NoHttp)
    /\ LET count == ResetExtractionsCount(rows)
       IN  /\ rows' = reset_interrupted_extractions(rows)
           /\ tasks' = IF ShouldRestart(count)
                       THEN Spawn(tasks, "extract_queue", "lifespan", "start", "", "")
                       ELSE tasks
    /\ phase' = "serving"
    /\ resp' = NoResponse
    /\ triggered' = NoTrigger
    /\ result' = NoResult
    /\ UNCHANGED <<seq, clock, files>>

\* The process is killed (or reloaded): the event loop and its coroutines
\* are gone, the database file and the data directory stay.
Crash ==
    /\ phase = "serving"
    /\ UNCHANGED <<cwd, arg, ret>>
    /\ http' = Traced(NoHttp)
    /\ tasks' = {}
    /\ phase' = "boot_conv"
    /\ resp' = NoResponse
    /\ triggered' = NoTrigger
    /\ result' = NoResult
    /\ UNCHANGED <<rows, seq, clock, files>>

(***************************************************************************)
(* POST /pdfs: process_pdf_endpoint and process_pdf.                       *)
(***************************************************************************)
\* process_pdf's failure paths: a row with status error and no file.
StoreFailedAttempt(rs, id, fs, uri, message) ==
    store_processed_pdf(rs, id, fs, uri, "", "", FALSE, "error", message)

\* process_pdf's own cache test repeats check_uri_exists' condition on the
\* same row, so it is false whenever process_pdf is reached from here.
\* fetch: "pdf" / "other" is the content type the HEAD request reports,
\* "error" a requests exception from HEAD or GET; bytes the body GET returns.
\* The row just stored carries the hash of the file just written, so
\* check_content_exists always finds a row (that one, if no older one) and
\* the branches that add convert_pdf_async as a background task are not
\* taken.
ProcessPdfEndpoint(u) ==
    /\ phase = "serving"
    /\ UNCHANGED <<cwd, arg, ret>>
    /\ http' = Traced(NoHttp)
    /\ LoopFree
    /\ LET existing_pdf == check_uri_exists(rows, u)
       IN  IF existing_pdf # NoRow
           THEN /\ resp' = Response(u, "skipped", existing_pdf, 0)
                /\ UNCHANGED <<rows, seq, clock, files, tasks>>
           ELSE
             /\ seq < MaxId
             /\ \E fetch \in {"pdf", "other", "error"}, bytes \in Contents :
                  LET is_pdf == fetch = "pdf" \/ HasPdfExtension(u)
                      filename == FileNameOf(u)
                      file_path == get_pdf_file_path(filename)
                      fs1 == [files EXCEPT ![file_path] = bytes]
                      rs1 == store_processed_pdf(rows, seq + 1, FromCwd(fs1), u,
                                                 filename, file_path, TRUE, "success", NULL)
                      content_hash == hash_file_content(fs1, file_path)
                      existing_content == check_content_exists(rs1, content_hash)
                  IN  /\ seq' = seq + 1
                      /\ UNCHANGED clock
                      /\ IF fetch = "error" THEN
                            /\ rows' = StoreFailedAttempt(rows, seq + 1, files, u,
                                                          FetchErrorMsg)
                            /\ resp' = Response(u, "fetch_error", NoRow, 0)
                            /\ UNCHANGED <<files, tasks>>
                         ELSE IF ~is_pdf THEN
                            /\ rows' = StoreFailedAttempt(rows, seq + 1, files, u,
                                                          NotPdfMsg)
                            /\ resp' = Response(u, "not_pdf", NoRow, 0)
                            /\ UNCHANGED <<files, tasks>>
                         ELSE
                            /\ files' = fs1
                            /\ rows' = rs1
                            /\ IF content_hash # NULL /\ existing_content # NoRow
                               THEN /\ resp' = Response(u, "content_duplicate", existing_content,
                                                        seq + 1)
                                    /\ UNCHANGED tasks
                               ELSE /\ HasRoom(tasks)
                                    /\ resp' = Response(u, "queued", NoRow, seq + 1)
                                    /\ tasks' = Spawn(tasks, "convert", "background",
                                                      "start", u, "")
    /\ result' = NoResult
    /\ triggered' = NoTrigger
    /\ UNCHANGED <<phase>>

(***************************************************************************)
(* DELETE /pdfs/{uri}: delete_pdf_by_uri and delete_processed_pdf, on a    *)
(* worker thread.                                                          *)
(***************************************************************************)
\* A variant of the DELETE statement that spares a row that holds no
\* download.
delete_processed_pdf_downloaded_only(rs, uri) ==
    {r \in rs : r.uri # uri \/ ~r.is_downloaded}

delete_processed_pdf(rs, uri) == {r \in rs : r.uri # uri}

\* The removals of delete_processed_pdf, in its order, of which the first
\* `done` are carried out before one raises (all four when none does).
\* Each tests and removes the stored path as it is.
RemoveArtifacts(fs, row, done) ==
    LET targets == <<row.file_path, row.text_file_path, row.images_folder_path,
                     row.extraction_file_path>>
        Step(f, i) == IF i <= done /\ PathExists(FromCwd(f), targets[i])
                      THEN RemoveIfExists(f, targets[i]) ELSE f
    IN  Step(Step(Step(Step(fs, 1), 2), 3), 4)

\* The result is what delete_processed_pdf returns; false is answered with
\* 404.  No removal raises here.
DeletePdfByUri(u) ==
    /\ phase = "serving"
    /\ UNCHANGED <<cwd, arg, ret>>
    /\ http' = Traced(NoHttp)
    /\ LET row == get_processed_pdf(rows, u)
       IN  IF row = NoRow
           THEN /\ UNCHANGED <<rows, files>>
                /\ result' = Result("delete", u, FALSE, <<>>)
           ELSE /\ rows' = delete_processed_pdf(rows, u)
                /\ files' = RemoveArtifacts(files, row, 4)
                /\ result' = Result("delete", u, TRUE, <<>>)
    /\ resp' = NoResponse
    /\ triggered' = NoTrigger
    /\ UNCHANGED <<seq, clock, tasks, phase>>

(***************************************************************************)
(* The conversion runner, convert_pdf_async.                               *)
(***************************************************************************)
\* A variant of the runner's prologue that, for a locator with no row,
\* inserts a row to hold the error.
ConvertPrologue_creates_row(rs, now, fs, uri) ==
    LET rs1 == update_conversion_status(rs, now, uri, FALSE, TRUE, NULL, NULL, NULL)
        pdf_info == get_processed_pdf(rs1, uri)
    IN  IF pdf_info = NoRow THEN
            [ok |-> FALSE, filename |-> "",
             rows |-> rs1 \cup {NewRow(0, uri, NULL, "", "", FALSE, 0, "error",
                                       ConvNotFoundMsg)}]
        ELSE IF ~PathExists(fs, pdf_info.file_path) THEN
            [ok |-> FALSE, filename |-> pdf_info.filename,
             rows |-> update_conversion_status(rs1, now, uri, FALSE, FALSE,
                                               ConvNoFileMsg, NULL, NULL)]
        ELSE [ok |-> TRUE, filename |-> pdf_info.filename, rows |-> rs1]

\* Up to the await of run_in_executor: mark started, read the row, check
\* the file.  ok: the runner goes on to await convert_pdf; otherwise the
\* except branch has stored the error and the runner has returned.
ConvertPrologue(rs, now, fs, uri) ==
    LET rs1 == update_conversion_status(rs, now, uri, FALSE, TRUE, NULL, NULL, NULL)
        pdf_info == get_processed_pdf(rs1, uri)
    IN  IF pdf_info = NoRow THEN
            [ok |-> FALSE, filename |-> "",
             rows |-> update_conversion_status(rs1, now, uri, FALSE, FALSE,
                                               ConvNotFoundMsg, NULL, NULL)]
        ELSE IF ~PathExists(fs, pdf_info.file_path) THEN
            [ok |-> FALSE, filename |-> pdf_info.filename,
             rows |-> update_conversion_status(rs1, now, uri, FALSE, FALSE,
                                               ConvNoFileMsg, NULL, NULL)]
        ELSE [ok |-> TRUE, filename |-> pdf_info.filename, rows |-> rs1]

\* convert_pdf (marker) on the resolved path: it cannot succeed on
\* BASE_DIR itself, which is what an empty stored path resolves to.
EngineOutcomes(filename) ==
    IF filename = "" THEN {"engine_error"} ELSE {"ok", "engine_error", "write_error"}

\* A variant in which a drain ends with the first runner that fails.
AfterRunner_stops_on_failure(t, res) ==
    IF t.kind \in {"convert_queue", "extract_queue"} /\ res.success
    THEN {[t EXCEPT !.pc = "sleep", !.uri = "", !.filename = "",
                    !.results = Append(@, res)]}
    ELSE {}

\* What is left of the coroutine once its runner has returned res: a single
\* runner is over, a drain appends res to its results and goes to sleep
\* before its next item.
AfterRunner(t, res) ==
    IF t.kind \in {"convert_queue", "extract_queue"}
    THEN {[t EXCEPT !.pc = "sleep", !.uri = "", !.filename = "",
                    !.results = Append(@, res)]}
    ELSE {}

\* A variant of the handler around the trigger that fails the conversion
\* when the extraction cannot be scheduled.
TriggerFailed_fails_conversion(rs, now, uri) ==
    update_conversion_status(rs, now, uri, FALSE, FALSE, ConvEngineMsg, NULL, NULL)

\* `except Exception as e: logger.warning(...)` around the call of
\* trigger_extraction_background: the table is left as it is.
TriggerFailed(rs, now, uri) == rs

\* POST /convert/{uri}: convert_single_pdf.
ConvertSinglePdf(u) ==
    /\ phase = "serving"
    /\ UNCHANGED <<cwd, arg, ret>>
    /\ LoopFree
    /\ LET pdf == get_processed_pdf(rows, u)
           run == ConvertPrologue(rows, Now, files, u)
           call == Call("convert_pdf_async", u, <<>>, <<>>)
       IN  \E raised \in StoreFailures :
           IF raised THEN                   \* the store raised: except Exception
               /\ UNCHANGED <<rows, clock, tasks>>
               /\ result' = NoResult
               /\ http' = Traced(Http("convert", 500, "", NoCall))
           ELSE IF ConvertRefusal(pdf) # 0 THEN                   \* 404, 400
               /\ UNCHANGED <<rows, clock, tasks>>
               /\ result' = NoResult
               /\ http' = Traced(Http("convert", ConvertRefusal(pdf), "", NoCall))
           ELSE IF pdf.is_converted THEN            \* "PDF is already converted"
               /\ UNCHANGED <<rows, clock, tasks>>
               /\ result' = NoResult
               /\ http' = Traced(Http("convert", 200, "already_converted", NoCall))
           ELSE
               /\ rows' = run.rows
               /\ UNCHANGED clock
               /\ http' = Traced(Http("convert", 200, "runner", call))
               /\ IF run.ok
                  THEN /\ HasRoom(tasks)
                       /\ tasks' = Spawn(tasks, "convert", "request", "exec", u,
                                         run.filename)
                       /\ result' = NoResult
                  ELSE /\ UNCHANGED tasks
                       /\ result' = RunnerResult("convert", u, FALSE)
    /\ resp' = NoResponse
    /\ triggered' = NoTrigger
    /\ UNCHANGED <<seq, files, phase>>

\* The convert_pdf_async(uri) that POST /pdfs added to its background tasks
\* gets to run, up to the await of run_in_executor.
ConvertBegin(t) ==
    /\ phase = "serving"
    /\ UNCHANGED <<cwd, arg, ret>>
    /\ http' = Traced(NoHttp)
    /\ LoopFree
    /\ t \in tasks /\ t.kind = "convert" /\ t.pc = "start"
    /\ LET run == ConvertPrologue(rows, Now, files, t.uri)
       IN  /\ rows' = run.rows
           /\ IF run.ok
              THEN /\ tasks' = (tasks \ {t}) \cup
                                {[t EXCEPT !.pc = "exec", !.filename = run.filename]}
                   /\ result' = NoResult
              ELSE /\ tasks' = tasks \ {t}
                   /\ result' = RunnerResult("convert", t.uri, FALSE)
    /\ resp' = NoResponse
    /\ triggered' = NoTrigger
    /\ UNCHANGED <<seq, clock, files, phase>>

\* A variant of the runner's writes that saves the images and no text.
WriteOutputs_images_only(fs, filename) ==
    [fs EXCEPT ![get_pdf_images_folder_path(filename)] = "images"]

\* The runner's writes after convert_pdf returned: the text file (opened
\* with mode 'w') and the images, saved under their names in the images
\* folder.
WriteOutputs(fs, filename) ==
    [fs EXCEPT ![get_pdf_text_file_path(filename)] = "text",
               ![get_pdf_images_folder_path(filename)] = "images"]

\* convert_pdf returns or raises in the executor and the runner resumes:
\* it writes the text file, the images and the manifest, marks the row
\* completed and schedules the extraction; or its except branch stores the
\* error.  write_error: the text file is written, a later write raises.
\* scheduled: trigger_extraction_background created the task; otherwise the
\* import or asyncio.create_task raised and no task was created.
ConvertFinish(t) ==
    /\ phase = "serving"
    /\ UNCHANGED <<cwd, arg, ret>>
    /\ http' = Traced(NoHttp)
    /\ LoopFree
    /\ t \in tasks /\ t.pc = "exec"
    /\ \E outcome \in EngineOutcomes(t.filename) :
         LET text_file_path == get_pdf_text_file_path(t.filename)
             images_folder == get_pdf_images_folder_path(t.filename)
         IN  IF outcome = "ok" THEN
                 /\ clock < MaxCompletions
                 /\ clock' = clock + 1
                 /\ files' = WriteOutputs(files, t.filename)
                 /\ \E scheduled \in BOOLEAN :
                      LET rs1 == update_conversion_status(rows, Now, t.uri, TRUE, FALSE,
                                     NULL, text_file_path, images_folder)
                          left == (tasks \ {t}) \cup
                                      AfterRunner(t, RunnerResult("convert", t.uri, TRUE))
                      IN  IF scheduled
                          THEN /\ HasRoom(left)
                               /\ rows' = rs1
                               /\ tasks' = Spawn(left, "extract", "background",
                                                 "start", t.uri, "")
                               /\ triggered' = Trigger(t.uri, TRUE)
                          ELSE /\ rows' = TriggerFailed(rs1, Now, t.uri)
                               /\ tasks' = left
                               /\ triggered' = Trigger(t.uri, FALSE)
                 /\ result' = RunnerResult("convert", t.uri, TRUE)
                 /\ resp' = NoResponse
             ELSE
                 /\ files' = IF outcome = "write_error"
                             THEN [files EXCEPT ![text_file_path] = "text"]
                             ELSE files
                 /\ rows' = update_conversion_status(
                                rows, Now, t.uri, FALSE, FALSE,
                                IF outcome = "write_error" THEN ConvWriteMsg
                                ELSE ConvEngineMsg, NULL, NULL)
                 /\ tasks' = (tasks \ {t}) \cup
                               AfterRunner(t, RunnerResult("convert", t.uri, FALSE))
                 /\ result' = RunnerResult("convert", t.uri, FALSE)
                 /\ resp' = NoResponse
                 /\ triggered' = NoTrigger
                 /\ UNCHANGED clock
    /\ UNCHANGED <<seq, phase>>

\* process_conversion_queue: fetch the pending list when the drain first
\* runs, then one item per wake-up, up to the await inside its runner.
ConvertQueueStep(t) ==
    /\ phase = "serving"
    /\ UNCHANGED <<cwd, arg, ret>>
    /\ http' = Traced(NoHttp)
    /\ LoopFree
    /\ t \in tasks /\ t.kind = "convert_queue" /\ t.pc \in {"start", "sleep"}
    /\ LET pending_pdfs == IF t.pc = "start"
                           THEN UrisOf(get_pdfs_for_conversion(rows))
                           ELSE t.pending
           fetched == IF t.pc = "start" THEN pending_pdfs ELSE t.fetched
       IN  IF pending_pdfs = <<>>
           THEN /\ tasks' = tasks \ {t}
                /\ result' = Result(t.kind, "", TRUE, t.results)
                /\ UNCHANGED <<rows, clock>>
           ELSE LET u == Head(pending_pdfs)
                    run == ConvertPrologue(rows, Now, files, u)
                    t1 == [t EXCEPT !.pc = "exec", !.uri = u,
                                    !.filename = run.filename,
                                    !.pending = Tail(pending_pdfs),
                                    !.fetched = fetched]
                IN  /\ rows' = run.rows
                    /\ UNCHANGED clock
                    /\ IF run.ok
                       THEN /\ tasks' = (tasks \ {t}) \cup {t1}
                            /\ result' = NoResult
                       ELSE /\ tasks' = (tasks \ {t}) \cup
                                  AfterRunner(t1, RunnerResult("convert", u, FALSE))
                            /\ result' = RunnerResult("convert", u, FALSE)
    /\ UNCHANGED <<seq, files, phase>>
    /\ resp' = NoResponse
    /\ triggered' = NoTrigger

(***************************************************************************)
(* The extraction runners, extract_pdf_async and                           *)
(* extract_pdf_selective_async.                                            *)
(***************************************************************************)
\* After the start is marked: read the row, check it is converted and its
\* text file exists, read the text and the previous result; then
\* `from config import TEXT_PROCESSING_STRATEGY` raises ImportError (config.py
\* defines no such name), so every run ends in the except branch.
ExtractFailureCause(rs, fs, uri) ==
    LET pdf_info == get_processed_pdf(rs, uri)
    IN  IF pdf_info = NoRow THEN "not_found"
        ELSE IF ~pdf_info.is_converted THEN "not_converted"
        ELSE IF ~PathExists(fs, pdf_info.text_file_path) THEN "no_text"
        ELSE "import"

\* POST /extract/{paper_id}: extract_single_pdf, and
\* POST /extract/{paper_id}/selective: extract_selective_pdf with a request
\* naming fields and models.
ExtractEndpoint(kind, paper_id, request) ==
    /\ phase = "serving"
    /\ UNCHANGED <<cwd, arg, ret>>
    /\ LoopFree
    /\ LET pdf == get_processed_pdf_by_id(rows, paper_id)
           refusal == IF kind = "extract_selective"
                      THEN SelectiveRefusal(pdf, request)
                      ELSE ExtractRefusal(pdf)
           call == IF kind = "extract_selective"
                   THEN Call("extract_pdf_selective_async", pdf.uri,
                             request.selected_fields, selected_models(request))
                   ELSE Call("extract_pdf_async", pdf.uri, <<>>, <<>>)
       IN  \E raised \in StoreFailures :
           IF raised THEN                   \* the store raised: except Exception
               /\ UNCHANGED <<rows, clock, tasks>>
               /\ http' = Traced(Http(kind, 500, "", NoCall))
           ELSE IF refusal # 0 THEN                               \* 404, 400
               /\ UNCHANGED <<rows, clock, tasks>>
               /\ http' = Traced(Http(kind, refusal, "", NoCall))
           ELSE
               /\ HasRoom(tasks)
               /\ UNCHANGED clock
               /\ rows' = update_extraction_status(rows, Now, pdf.uri, FALSE, TRUE,
                                                   NULL, NULL)
               /\ tasks' = Spawn(tasks, kind, "request", "body", pdf.uri, "")
               /\ http' = Traced(Http(kind, 200, "runner", call))
    /\ resp' = NoResponse
    /\ triggered' = NoTrigger
    /\ result' = NoResult
    /\ UNCHANGED <<seq, files, phase>>

ExtractSinglePdf(paper_id) == ExtractEndpoint("extract", paper_id, NoRequest)

ExtractSelectivePdf(paper_id, request) ==
    ExtractEndpoint("extract_selective", paper_id, request)

\* A scheduled extract_pdf_async(uri) gets to run: it marks the start.
ExtractBegin(t) ==
    /\ phase = "serving"
    /\ UNCHANGED <<cwd, arg, ret>>
    /\ http' = Traced(NoHttp)
    /\ LoopFree
    /\ t \in tasks /\ t.kind = "extract" /\ t.pc = "start"
    /\ rows' = update_extraction_status(rows, Now, t.uri, FALSE, TRUE, NULL, NULL)
    /\ tasks' = (tasks \ {t}) \cup {[t EXCEPT !.pc = "body"]}
    /\ UNCHANGED <<seq, clock, files, phase>>
    /\ resp' = NoResponse
    /\ triggered' = NoTrigger
    /\ result' = NoResult

\* The rest of the runner's synchronous run, ending in its except branch.
ExtractBody(t) ==
    /\ phase = "serving"
    /\ UNCHANGED <<cwd, arg, ret>>
    /\ http' = Traced(NoHttp)
    /\ t \in tasks /\ t.pc = "body"
    /\ LET kind == RunnerOf(t.kind)
           cause == ExtractFailureCause(rows, files, t.uri)
       IN  /\ rows' = update_extraction_status(rows, Now, t.uri, FALSE, FALSE,
                                               ExtrErrorMsg(kind, cause), NULL)
           /\ tasks' = (tasks \ {t}) \cup
                         AfterRunner(t, RunnerResult(kind, t.uri, FALSE))
           /\ result' = RunnerResult(kind, t.uri, FALSE)
           /\ resp' = NoResponse
           /\ triggered' = NoTrigger
    /\ UNCHANGED <<seq, clock, files, phase>>

\* process_extraction_queue: fetch the pending list when the drain first
\* runs, then one item per wake-up.
ExtractQueueStep(t) ==
    /\ phase = "serving"
    /\ UNCHANGED <<cwd, arg, ret>>
    /\ http' = Traced(NoHttp)
    /\ LoopFree
    /\ t \in tasks /\ t.kind = "extract_queue" /\ t.pc \in {"start", "sleep"}
    /\ LET pending_pdfs == IF t.pc = "start"
                           THEN UrisOf(get_pdfs_for_extraction(rows))
                           ELSE t.pending
           fetched == IF t.pc = "start" THEN pending_pdfs ELSE t.fetched
       IN  IF pending_pdfs = <<>>
           THEN /\ tasks' = tasks \ {t}
                /\ result' = Result(t.kind, "", TRUE, t.results)
                /\ UNCHANGED <<rows, clock>>
           ELSE /\ UNCHANGED clock
                /\ rows' = update_extraction_status(rows, Now, Head(pending_pdfs),
                                                    FALSE, TRUE, NULL, NULL)
                /\ tasks' = (tasks \ {t}) \cup
                       {[t EXCEPT !.pc = "body", !.uri = Head(pending_pdfs),
                                  !.pending = Tail(pending_pdfs),
                                  !.fetched = fetched]}
                /\ result' = NoResult
    /\ UNCHANGED <<seq, files, phase>>
    /\ resp' = NoResponse
    /\ triggered' = NoTrigger

(***************************************************************************)
(* The system.                                                             *)
(***************************************************************************)
PaperIds == 1..MaxId

Next ==
    \/ LifespanResetConversions
    \/ LifespanResetExtractions
    \/ Crash
    \/ \E u \in Uris : ProcessPdfEndpoint(u)
    \/ \E u \in Uris : DeletePdfByUri(u)
    \/ \E u \in Uris : ConvertSinglePdf(u)
    \/ \E t \in tasks : ConvertFinish(t)
    \/ \E t \in tasks : ConvertQueueStep(t)
    \/ \E id \in PaperIds : ExtractSinglePdf(id)
    \/ \E id \in PaperIds, request \in SelectiveRequests : ExtractSelectivePdf(id, request)
    \/ \E t \in tasks : ExtractBegin(t)
    \/ \E t \in tasks : ExtractBody(t)
    \/ \E t \in tasks : ExtractQueueStep(t)

Spec == Init /\ [][Next]_vars

\* The server is started from another directory (uvicorn --app-dir, or the
\* package directory on PYTHONPATH).
InitElsewhere ==
    /\ rows = {}
    /\ seq = 0
    /\ clock = 0
    /\ files = [p \in AllPaths |-> "absent"]
    /\ tasks = {}
    /\ phase = "boot_conv"
    /\ resp = NoResponse
    /\ result = NoResult
    /\ triggered = NoTrigger
    /\ cwd = "elsewhere"
    /\ arg = NoArg
    /\ ret = NoOut
    /\ http = Untraced

\* One run of that server from an empty store: it is not killed, so its
\* lifespan finds nothing to put back on a queue.  There POST /pdfs does
\* add convert_pdf_async to its background tasks (no stored row carries a
\* content hash), and the task runs.
NextElsewhere ==
    \/ LifespanResetConversions
    \/ LifespanResetExtractions
    \/ \E u \in Uris : ProcessPdfEndpoint(u)
    \/ \E u \in Uris : DeletePdfByUri(u)
    \/ \E u \in Uris : ConvertSinglePdf(u)
    \/ \E t \in tasks : ConvertBegin(t)
    \/ \E t \in tasks : ConvertFinish(t)
    \/ \E id \in PaperIds : ExtractSinglePdf(id)
    \/ \E id \in PaperIds, request \in SelectiveRequests : ExtractSelectivePdf(id, request)
    \/ \E t \in tasks : ExtractBegin(t)
    \/ \E t \in tasks : ExtractBody(t)

SpecElsewhere == InitElsewhere /\ [][NextElsewhere]_vars

\* The same server, with the answers of the trigger endpoints traced.
InitTraced ==
    /\ rows = {}
    /\ seq = 0
    /\ clock = 0
    /\ files = [p \in AllPaths |-> "absent"]
    /\ tasks = {}
    /\ phase = "boot_conv"
    /\ resp = NoResponse
    /\ result = NoResult
    /\ triggered = NoTrigger
    /\ cwd = "base"
    /\ arg = NoArg
    /\ ret = NoOut
    /\ http = NoHttp

\* One run of the server from an empty store: it is not killed, so its
\* lifespan finds nothing to put back on a queue.
NextTraced ==
    \/ LifespanResetConversions
    \/ LifespanResetExtractions
    \/ \E u \in Uris : ProcessPdfEndpoint(u)
    \/ \E u \in Uris : DeletePdfByUri(u)
    \/ \E u \in Uris : ConvertSinglePdf(u)
    \/ \E t \in tasks : ConvertFinish(t)
    \/ \E id \in PaperIds : ExtractSinglePdf(id)
    \/ \E id \in PaperIds, request \in SelectiveRequests : ExtractSelectivePdf(id, request)
    \/ \E t \in tasks : ExtractBegin(t)
    \/ \E t \in tasks : ExtractBody(t)

SpecTraced == InitTraced /\ [][NextTraced]_vars

(***************************************************************************)
(* config.py: make_path_relative and resolve_file_path.                    *)
(*                                                                         *)
(* A path string is its root ("" for a relative path, "/" or "//": POSIX   *)
(* keeps exactly two leading slashes) and the segments between its         *)
(* slashes, "" for a doubled or trailing slash.  pathlib.Path parses a     *)
(* string by dropping the "" and "." segments and keeps "..".              *)
(***************************************************************************)
MaxSegs == 3

Roots == {"", "/", "//"}

Segments == {"app", "data", "..", ".", ""}

PathStrings ==
    [root : Roots, segs : UNION {[1..n -> Segments] : n \in 0..MaxSegs}]

\* Path(s)
PathOf(s) ==
    [root |-> s.root, parts |-> SelectSeq(s.segs, LAMBDA x : x \notin {"", "."})]

\* str(path): the empty relative path prints as "."
StrOf(path) ==
    IF path.root = "" /\ path.parts = <<>>
    THEN [root |-> "", segs |-> <<".">>]
    ELSE [root |-> path.root, segs |-> path.parts]

is_absolute(path) == path.root # ""

\* BASE_DIR = Path(__file__).parent, the absolute directory of config.py
BASE_DIR == [root |-> "/", parts |-> <<"app">>]

ValueError == [root |-> "ValueError", parts |-> <<>>]

\* path.relative_to(base): the parts after base's, or ValueError when base
\* is not a leading part of path
relative_to(path, base) ==
    IF /\ path.root = base.root
       /\ Len(base.parts) <= Len(path.parts)
       /\ SubSeq(path.parts, 1, Len(base.parts)) = base.parts
    THEN [root |-> "", parts |-> SubSeq(path.parts, Len(base.parts) + 1, Len(path.parts))]
    ELSE ValueError

\* base / path
JoinPath(base, path) ==
    IF is_absolute(path) THEN path
    ELSE [root |-> base.root, parts |-> base.parts \o path.parts]

\* A variant that stores the file name alone.
make_path_relative_name_only(file_path) ==
    LET abs_path == PathOf(file_path)
    IN  IF is_absolute(abs_path)
        THEN LET rel_path == relative_to(abs_path, BASE_DIR)
             IN  IF rel_path = ValueError THEN file_path
                 ELSE IF rel_path.parts = <<>> THEN StrOf(rel_path)
                 ELSE StrOf([rel_path EXCEPT !.parts = <<rel_path.parts[Len(rel_path.parts)]>>])
        ELSE file_path

make_path_relative(file_path) ==
    LET abs_path == PathOf(file_path)
    IN  IF is_absolute(abs_path)
        THEN LET rel_path == relative_to(abs_path, BASE_DIR)
             IN  IF rel_path = ValueError THEN file_path
                 ELSE StrOf(rel_path)
        ELSE file_path

resolve_file_path(file_path) ==
    LET path == PathOf(file_path)
    IN  IF is_absolute(path) THEN path ELSE JoinPath(BASE_DIR, path)

\* The server is not running: only the helper functions are called.
Idle == UNCHANGED <<rows, seq, clock, files, tasks, phase, resp, result, triggered, cwd, http>>

MakePathRelative ==
    /\ ret' = Out("make_path_relative", make_path_relative(arg))
    /\ UNCHANGED arg
    /\ Idle

ResolveFilePath ==
    /\ ret' = Out("resolve_file_path", resolve_file_path(arg))
    /\ UNCHANGED arg
    /\ Idle

\* resolve_file_path(make_path_relative(arg)): a path is stored, then read
RoundTrip ==
    /\ ret' = Out("round_trip", resolve_file_path(make_path_relative(arg)))
    /\ UNCHANGED arg
    /\ Idle

InitPaths ==
    /\ rows = {}
    /\ seq = 0
    /\ clock = 0
    /\ files = [p \in AllPaths |-> "absent"]
    /\ tasks = {}
    /\ phase = "boot_conv"
    /\ resp = NoResponse
    /\ result = NoResult
    /\ triggered = NoTrigger
    /\ cwd = "base"
    /\ arg \in PathStrings
    /\ ret = NoOut
    /\ http = Untraced

NextPaths ==
    \/ MakePathRelative
    \/ ResolveFilePath
    \/ RoundTrip

SpecPaths == InitPaths /\ [][NextPaths]_vars

(***************************************************************************)
(* llm/context_utils.py: fitting a text into a model's context window.     *)
(*                                                                         *)
(* Sizes are counted in units of 1000 tokens.  A text is a sequence of     *)
(* pieces of 4000 characters each: a "plain" piece is 1000 tokens for the  *)
(* tiktoken encoding (4 characters a token, as the code's rough conversion *)
(* takes), a "dense" piece (digits, formulas, non-Latin script) is 2000.   *)
(* estimate_tokens uses tiktoken, or len(text) // 4 when tiktoken raises   *)
(* (its encoding file is not there): which one is up to the installation.  *)
(***************************************************************************)
MaxPieces == 9

Pieces == {"plain", "dense"}

Texts == UNION {[1..n -> Pieces] : n \in 0..MaxPieces}

Estimators == {"tiktoken", "fallback"}

\* MODEL_CONTEXT_LIMITS["default"] = 8000
DefaultContextLimit == 8

\* the reserve of chunk_text_intelligently: 1000
ChunkReserve == 1

get_context_limit(model) == DefaultContextLimit

RECURSIVE TiktokenCount(_)
TiktokenCount(text) ==
    IF text = <<>> THEN 0
    ELSE (IF Head(text) = "dense" THEN 2 ELSE 1) + TiktokenCount(Tail(text))

estimate_tokens(text, estimator) ==
    IF estimator = "tiktoken" THEN TiktokenCount(text) ELSE Len(text)

Prefix(text, n) == SubSeq(text, 1, IF n < Len(text) THEN n ELSE Len(text))

\* text[:n]: a negative n counts from the end of the text.
Slice(text, n) ==
    IF n >= 0 THEN Prefix(text, n)
    ELSE Prefix(text, IF Len(text) + n > 0 THEN Len(text) + n ELSE 0)

\* The reserves truncate_text is given: none, the reserve of
\* chunk_text_intelligently, the whole context limit, more than the limit.
Reserves == {0, ChunkReserve, DefaultContextLimit, DefaultContextLimit + 1}

\* truncate_text's binary search for the longest prefix within max_tokens
RECURSIVE TruncateSearch(_, _, _, _, _, _)
TruncateSearch(text, estimator, max_tokens, left, right, best_text) ==
    IF left < right
    THEN LET mid == (left + right + 1) \div 2
             candidate == Prefix(text, mid)
         IN  IF estimate_tokens(candidate, estimator) <= max_tokens
             THEN TruncateSearch(text, estimator, max_tokens, mid, right, candidate)
             ELSE TruncateSearch(text, estimator, max_tokens, left, mid - 1, best_text)
    ELSE best_text

truncate_text(text, estimator, reserve_tokens) ==
    LET max_tokens == get_context_limit("default") - reserve_tokens
    IN  IF estimate_tokens(text, estimator) <= max_tokens THEN text
        ELSE TruncateSearch(text, estimator, max_tokens, 0, Len(text),
                            Slice(text, max_tokens))   \* text[:max_tokens * 4]

\* RecursiveCharacterTextSplitter.split_text with length_function=len:
\* consecutive chunks of at most chunk_size characters (the overlap of 200
\* characters is below the grain of a piece).
RECURSIVE split_text(_, _)
split_text(text, chunk_size) ==
    IF text = <<>> THEN <<>>
    ELSE IF Len(text) <= chunk_size THEN <<text>>
    ELSE <<Prefix(text, chunk_size)>>
         \o split_text(SubSeq(text, chunk_size + 1, Len(text)), chunk_size)

chunk_text_intelligently(text, estimator) ==
    LET max_tokens == get_context_limit("default") - ChunkReserve
        max_chars == max_tokens      \* max_tokens * 4 characters
        chunks == split_text(text, max_chars)
    IN  [i \in 1..Len(chunks) |->
            IF estimate_tokens(chunks[i], estimator) <= max_tokens
            THEN chunks[i]
            ELSE truncate_text(chunks[i], estimator, ChunkReserve)]

\* summarize_and_chunk under strategy "chunk"
summarize_and_chunk(text, estimator) == chunk_text_intelligently(text, estimator)

SummarizeAndChunk ==
    /\ ret.op = "none"
    /\ arg.reserve = ChunkReserve
    /\ ret' = Out("summarize_and_chunk", summarize_and_chunk(arg.text, arg.estimator))
    /\ UNCHANGED arg
    /\ Idle

TruncateText ==
    /\ ret.op = "none"
    /\ ret' = Out("truncate_text", <<truncate_text(arg.text, arg.estimator, arg.reserve)>>)
    /\ UNCHANGED arg
    /\ Idle

InitChunks ==
    /\ rows = {}
    /\ seq = 0
    /\ clock = 0
    /\ files = [p \in AllPaths |-> "absent"]
    /\ tasks = {}
    /\ phase = "boot_conv"
    /\ resp = NoResponse
    /\ result = NoResult
    /\ triggered = NoTrigger
    /\ cwd = "base"
    /\ arg \in [text : Texts, estimator : Estimators, reserve : Reserves]
    /\ ret = NoOut
    /\ http = Untraced

NextChunks ==
    \/ SummarizeAndChunk
    \/ TruncateText

SpecChunks == InitChunks /\ [][NextChunks]_vars

(***************************************************************************)
(* llm/llm.py extract_summaries and extraction_service.py                  *)
(* extract_selective_structured_data: the summaries of an extraction       *)
(* result, extended from the result of the previous run.  An entry is its  *)
(* model, its summary type and whether a selective run made it; the text   *)
(* the model wrote is left out.                                            *)
(***************************************************************************)
SummaryEntry(model, type, selective_extraction) ==
    [model |-> model, type |-> type, selective_extraction |-> selective_extraction]

model_list == <<"deepseek-r1:14b">>

summary_types == <<"abstract", "key_points", "comprehensive", "findings", "methodology">>

\* The inner loop of extract_summaries: existing_types was computed before
\* the loop, from the entries of the model.
RECURSIVE FullTypes(_, _, _, _)
FullTypes(summaries, model, types, existing_types) ==
    IF types = <<>> THEN summaries
    ELSE FullTypes(IF Head(types) \in existing_types THEN summaries
                   ELSE Append(summaries, SummaryEntry(model, Head(types), FALSE)),
                   model, Tail(types), existing_types)

RECURSIVE FullModels(_, _)
FullModels(summaries, models) ==
    IF models = <<>> THEN summaries
    ELSE LET model == Head(models)
             existing_types == {summaries[i].type :
                                  i \in {j \in DOMAIN summaries : summaries[j].model = model}}
         IN  FullModels(FullTypes(summaries, model, summary_types, existing_types),
                        Tail(models))

\* extract_summaries(text, existing_graph)["summaries"]
extract_summaries(existing_summaries) == FullModels(existing_summaries, model_list)

\* [s for s in result["summaries"] if s.get("model") == model and
\*  s.get("type") == summary_type] is not empty
HasSummary(summaries, model, type) ==
    \E i \in DOMAIN summaries : summaries[i].model = model /\ summaries[i].type = type

\* A variant of the selective loop that does not look for an existing entry.
RECURSIVE SelectiveTypes_no_check(_, _, _, _)
SelectiveTypes_no_check(summaries, model, types, failing) ==
    IF types = <<>> THEN summaries
    ELSE SelectiveTypes_no_check(
             IF <<model, Head(types)>> \in failing
             THEN summaries
             ELSE Append(summaries, SummaryEntry(model, Head(types), TRUE)),
             model, Tail(types), failing)

\* The inner loop of extract_selective_structured_data; failing are the
\* (model, type) pairs whose generate_summary raises (logged, skipped).
RECURSIVE SelectiveTypes(_, _, _, _)
SelectiveTypes(summaries, model, types, failing) ==
    IF types = <<>> THEN summaries
    ELSE SelectiveTypes(
             IF HasSummary(summaries, model, Head(types)) \/ <<model, Head(types)>> \in failing
             THEN summaries
             ELSE Append(summaries, SummaryEntry(model, Head(types), TRUE)),
             model, Tail(types), failing)

RECURSIVE SelectiveModels(_, _, _, _)
SelectiveModels(summaries, models, types, failing) ==
    IF models = <<>> THEN summaries
    ELSE SelectiveModels(SelectiveTypes(summaries, Head(models), types, failing),
                         Tail(models), types, failing)

\* The selected fields whose kind in the template is "summary".
summary_fields(selected_fields) ==
    SelectSeq(selected_fields, LAMBDA f : \E i \in DOMAIN summary_types : summary_types[i] = f)

\* extract_selective_structured_data(...)["summaries"]
extract_selective_structured_data(fields, models, existing_summaries, failing) ==
    SelectiveModels(existing_summaries, models, summary_fields(fields), failing)

SelectedFields ==
    {<<"abstract">>, <<"key_points", "abstract", "key_points">>,
     <<"What is the problem solved by this paper?", "findings">>}

SelectedModels == {<<"deepseek-r1:14b">>, <<"phi4:14b", "deepseek-r1:14b">>}

FailingPairs == SUBSET {<<"phi4:14b", "abstract">>, <<"deepseek-r1:14b", "key_points">>}

\* One call: the graph it was given, and what it was asked for.
ExtractionCall(existing_summaries, fields, models) ==
    [existing_summaries |-> existing_summaries, fields |-> fields, models |-> models]

\* A full run on the result of the previous run; generate_summary raising
\* ends the run without a result, and the previous result stays.
FullRun ==
    /\ arg' = ExtractionCall(ret.value, summary_types, model_list)
    /\ \E raised \in BOOLEAN :
          ret' = IF raised THEN Out("raised", ret.value)
                 ELSE Out("extract_summaries", extract_summaries(ret.value))
    /\ Idle

\* A selective run on the result of the previous run.
SelectiveRun(fields, models, failing) ==
    /\ arg' = ExtractionCall(ret.value, fields, models)
    /\ ret' = Out("extract_selective_structured_data",
                  extract_selective_structured_data(fields, models, ret.value, failing))
    /\ Idle

\* A converted record that has no extraction result yet.
InitMerge ==
    /\ rows = {}
    /\ seq = 0
    /\ clock = 0
    /\ files = [p \in AllPaths |-> "absent"]
    /\ tasks = {}
    /\ phase = "boot_conv"
    /\ resp = NoResponse
    /\ result = NoResult
    /\ triggered = NoTrigger
    /\ cwd = "base"
    /\ arg = ExtractionCall(<<>>, <<>>, <<>>)
    /\ ret = Out("no_result", <<>>)
    /\ http = Untraced

NextMerge ==
    \/ FullRun
    \/ \E fields \in SelectedFields, models \in SelectedModels, failing \in FailingPairs : SelectiveRun(fields, models, failing)

SpecMerge == InitMerge /\ [][NextMerge]_vars

(***************************************************************************)
(* Properties.                                                             *)
(***************************************************************************)
\* The step just taken answered POST /pdfs for u.
Submitted(u) == resp'.uri = u /\ resp'.body # "none"

\* The step just taken stored a download result (a new row) for u.
Stored(u) == Submitted(u) /\ resp'.body # "skipped"

RowsOf(rs, u) == {r \in rs : r.uri = u}

\* C1, as stated: when a locator is submitted twice in immediate
\* succession, the second submission returns the record the first one
\* stored and downloads nothing.
C1_SecondSubmissionReturnsFirst ==
    [][\A u \in Uris :
          (resp.uri = u /\ resp.body # "none" /\ Submitted(u))
          => /\ resp'.body = "skipped"
             /\ resp'.record = get_processed_pdf(rows, u)
             /\ UNCHANGED <<rows, seq, files>>]_vars

\* C1, amended: submitting a locator whose record is successfully
\* downloaded returns that record and changes no row, no file and no task;
\* nothing is downloaded or inserted.
C1_ResubmitOfDownloaded ==
    [][\A u \in Uris :
          ((\E r \in rows : r.uri = u /\ r.is_downloaded /\ r.status = "success")
           /\ Submitted(u))
          => /\ resp'.body = "skipped"
             /\ resp'.record \in RowsOf(rows, u)
             /\ UNCHANGED <<rows, seq, clock, files, tasks, phase>>]_vars

C1_Witness ==
    /\ resp.body = "skipped"
    /\ resp.record \in rows
    /\ resp.record.is_downloaded

\* C2: the table never holds two rows with the same locator.
C2_OneRowPerUri ==
    \A r \in rows : \A q \in rows : r.uri = q.uri => r = q

\* A locator was stored a second time, over its earlier row.
C2_Witness ==
    /\ resp.body \notin {"none", "skipped"}
    /\ seq >= 2
    /\ RowsOf(rows, resp.uri) # {}
    /\ Cardinality(rows) = 1

\* C3, as stated: a row is converted exactly when its conversion start
\* time and completion time are set, its conversion error is NULL and both
\* output paths are set.
C3_ConvertedIffAllSet ==
    \A r \in rows :
        r.is_converted <=>
            /\ r.conversion_started_at # NoTime
            /\ r.conversion_completed_at # NoTime
            /\ r.conversion_error = NULL
            /\ r.text_file_path # NULL
            /\ r.images_folder_path # NULL

\* C4: a row whose conversion is completed has a text output path and an
\* images output path.
C4_ConvertedHasPaths ==
    \A r \in rows :
        r.is_converted => r.text_file_path # NULL /\ r.images_folder_path # NULL

\* One conversion has completed, and one has failed after writing the text
\* file.
C4_Witness ==
    /\ \E r \in rows : r.is_converted /\ r.text_file_path # NULL
    /\ \E q \in rows : q.conversion_error = ConvWriteMsg

\* C5, as stated: a row's extraction is marked started or completed only
\* while its conversion is completed.
C5_ExtractionOnlyOnConverted ==
    \A r \in rows :
        (r.extraction_started_at # NoTime \/ r.is_extracted) => r.is_converted

\* The lifespan's two sweep steps.
ConversionSweepStep == phase = "boot_conv" /\ phase' = "boot_extr"

ExtractionSweepStep == phase = "boot_extr" /\ phase' = "serving"

\* C6: a sweep changes only rows whose stage start time is set, completion
\* time is NULL and completed flag is false; a row it changes differs from
\* before in exactly the start time (now NULL) and the stage error (now the
\* sentinel); it adds and removes no row; and the number it returns is the
\* number of rows it changed.  (The sweep's WHERE clause is narrower than
\* the three conditions: the conversion sweep also requires a successful
\* download, the extraction sweep a completed conversion.)
C6_SweepFrame ==
    [][/\ ConversionSweepStep =>
            /\ \A q \in rows' : \E r \in rows :
                  \/ q = r
                  \/ /\ r \notin rows'
                     /\ r.conversion_started_at # NoTime
                     /\ r.conversion_completed_at = NoTime
                     /\ ~r.is_converted
                     /\ q = [r EXCEPT !.conversion_started_at = NoTime,
                                      !.conversion_error = ConvInterruptedMsg]
            /\ Cardinality(rows') = Cardinality(rows)
            /\ ResetConversionsCount(rows) = Cardinality(rows \ rows')
       /\ ExtractionSweepStep =>
            /\ \A q \in rows' : \E r \in rows :
                  \/ q = r
                  \/ /\ r \notin rows'
                     /\ r.extraction_started_at # NoTime
                     /\ r.extraction_completed_at = NoTime
                     /\ ~r.is_extracted
                     /\ q = [r EXCEPT !.extraction_started_at = NoTime,
                                      !.extraction_error = ExtrInterruptedMsg]
            /\ Cardinality(rows') = Cardinality(rows)
            /\ ResetExtractionsCount(rows) = Cardinality(rows \ rows')]_vars

\* The conversion sweep has just reset one row and left another alone.
C6_Witness ==
    /\ phase = "boot_extr"
    /\ \E r \in rows : \E q \in rows :
          /\ r.conversion_error = ConvInterruptedMsg
          /\ r.conversion_started_at = NoTime
          /\ q.conversion_error # ConvInterruptedMsg

\* The errors a conversion runner records.
ConversionFailures == {ConvNotFoundMsg, ConvNoFileMsg, ConvEngineMsg, ConvWriteMsg}

\* C7, as stated: the sweep leaves alone a row whose conversion ended in a
\* failure recorded by the runner: the row, its error string included, is
\* the same after the sweep.
C7_FailureSurvivesSweep ==
    [][ConversionSweepStep =>
          \A r \in rows :
              (r.conversion_error \in ConversionFailures /\ ~r.is_converted)
              => r \in rows']_vars

\* C8: until the lifespan yields, the only steps are its two sweeps, in
\* order, and no coroutine runs; a kill is the only way back to startup;
\* once a sweep has run no row is left that its WHERE clause selects; and
\* the sweep creates its stage's drain exactly when it has reset a row.
C8_SweepBeforeServing ==
    [][/\ phase' # phase =>
            \/ ConversionSweepStep
            \/ ExtractionSweepStep
            \/ phase = "serving" /\ phase' = "boot_conv" /\ tasks' = {}
       /\ phase # "serving" =>
            /\ phase' # phase
            /\ UNCHANGED <<seq, clock, files>>
            /\ resp' = NoResponse
            /\ tasks \subseteq tasks'
            /\ \A t \in tasks' : t.origin = "lifespan" /\ t.pc = "start"
       /\ ConversionSweepStep =>
            /\ \A r \in rows' : ~InterruptedConversion(r)
            /\ (\E t \in tasks' \ tasks : t.kind = "convert_queue")
                   <=> rows' # rows
            /\ Cardinality(tasks' \ tasks) <= 1
       /\ ExtractionSweepStep =>
            /\ \A r \in rows' : ~InterruptedExtraction(r)
            /\ (\E t \in tasks' \ tasks : t.kind = "extract_queue")
                   <=> rows' # rows
            /\ Cardinality(tasks' \ tasks) <= 1]_vars

\* Serving has begun after a sweep that reset a conversion and none of the
\* extractions: the conversion drain is created and has not run yet.
C8_Witness ==
    /\ phase = "serving"
    /\ \E t \in tasks : t.kind = "convert_queue" /\ t.pc = "start"
    /\ ~\E t \in tasks : t.kind = "extract_queue"
    /\ \E r \in rows : r.conversion_error = ConvInterruptedMsg

\* The sweep has reset the stage of u's row, and the row still waits.
ConversionRequeued(rs, u) ==
    \E r \in RowsOf(rs, u) :
        /\ r.conversion_error = ConvInterruptedMsg
        /\ r.conversion_started_at = NoTime
        /\ ~r.is_converted

ExtractionRequeued(rs, u) ==
    \E r \in RowsOf(rs, u) :
        /\ r.extraction_error = ExtrInterruptedMsg
        /\ r.extraction_started_at = NoTime
        /\ ~r.is_extracted

\* The locators a drain has in hand: the one it is running and the rest of
\* its fetched list.
WorkOf(t) == {t.uri} \cup {t.pending[i] : i \in DOMAIN t.pending}

\* The drain t, created by the lifespan, runs for the first time.
DrainFirstStep(t) ==
    /\ phase = "serving" /\ phase' = "serving"
    /\ t.origin = "lifespan" /\ t.pc = "start"
    /\ t \notin tasks'

\* After that step the drain has u in hand.
InHand(t, u) ==
    \E d \in tasks' : d.slot = t.slot /\ d.kind = t.kind /\ u \in WorkOf(d)

\* C9, as stated, in the form a finite run refutes: when the drain that the
\* sweep scheduled first runs, every row the sweep has reset for that stage
\* and that still waits is taken into the drain's work (it is the item the
\* drain runs, or in the rest of its list, or that run has already failed
\* and recorded its error).  Only a drain runs a stage without a request,
\* so a waiting row the drain leaves out never reaches a terminal state
\* unless an operator acts.
C9_DrainTakesEveryRequeued ==
    [][\A t \in tasks : DrainFirstStep(t) =>
          \A u \in Uris :
             /\ (t.kind = "convert_queue" /\ ConversionRequeued(rows, u))
                => (InHand(t, u) \/ ~ConversionRequeued(rows', u))
             /\ (t.kind = "extract_queue" /\ ExtractionRequeued(rows, u))
                => (InHand(t, u) \/ ~ExtractionRequeued(rows', u))]_vars

\* C10: when POST /pdfs stores a result for a locator, the table then holds
\* exactly one row for it: a new row (the next id) with the metadata and
\* the outcome of this attempt, its conversion and extraction columns at
\* their defaults; the earlier row of the locator is gone.
C10_StoreReplaces ==
    [][\A u \in Uris :
          Stored(u) =>
            /\ Cardinality(RowsOf(rows', u)) = 1
            /\ \A r \in RowsOf(rows, u) : r \notin rows'
            /\ \A r \in RowsOf(rows', u) :
                  /\ r.id = seq + 1 /\ seq' = seq + 1
                  /\ \A q \in rows : q.id < r.id
                  /\ r.processed_at = seq + 1
                  /\ r.uri_hash = hash_uri(u)
                  /\ IF resp'.body = "content_duplicate"
                     THEN /\ r.is_downloaded /\ r.status = "success"
                          /\ r.error_message = NULL
                          /\ r.filename = FileNameOf(u)
                          /\ r.file_path = get_pdf_file_path(FileNameOf(u))
                          /\ r.content_hash = hash_file_content(files', r.file_path)
                          /\ r.content_hash # NULL
                     ELSE /\ ~r.is_downloaded /\ r.status = "error"
                          /\ r.error_message \in {FetchErrorMsg, NotPdfMsg}
                          /\ r.filename = "" /\ r.file_path = ""
                          /\ r.content_hash = NULL
                  /\ ~r.is_converted /\ r.conversion_started_at = NoTime
                  /\ r.conversion_completed_at = NoTime
                  /\ r.conversion_error = NULL
                  /\ r.text_file_path = NULL /\ r.images_folder_path = NULL
                  /\ ~r.is_extracted /\ r.extraction_started_at = NoTime
                  /\ r.extraction_completed_at = NoTime
                  /\ r.extraction_error = NULL
                  /\ r.extraction_file_path = NULL
            /\ \A q \in rows : q.uri # u => q \in rows']_vars

\* A second attempt for a locator was stored as a successful download
\* and is the locator's only row.
C10_Witness ==
    /\ resp.body = "content_duplicate"
    /\ resp.database_id = 2
    /\ \E r \in rows : r.uri = resp.uri /\ r.id = 2 /\ r.error_message = NULL
    /\ Cardinality(rows) = 1

\* The row with the id of r after the step, if it is still in the table.
After(r) == {q \in rows' : q.id = r.id}

\* C11, as stated: marking the conversion started has no effect on a row
\* whose conversion is completed, so no step (manual trigger, queue drain,
\* background trigger) changes the conversion start time of a completed
\* row.
C11_NoRestartOfCompleted ==
    [][\A r \in rows :
          r.is_converted =>
             \A q \in After(r) :
                q.conversion_started_at = r.conversion_started_at]_vars

\* C12: marking a stage failed changes the stage's error column of the
\* named row and nothing else: every other column of that row, the start
\* time included, and every other row are as before.  Stated of the UPDATE
\* applied to every table the system reaches.
C12_FailedSetsOnlyError ==
    \A u \in Uris :
        /\ LET out == update_conversion_status(rows, Now, u, FALSE, FALSE,
                                               ConvEngineMsg, NULL, NULL)
           IN  /\ Cardinality(out) = Cardinality(rows)
               /\ \A r \in rows :
                     IF r.uri = u
                     THEN \E q \in out :
                             /\ q.conversion_error = ConvEngineMsg
                             /\ [q EXCEPT !.conversion_error = r.conversion_error] = r
                     ELSE r \in out
        /\ LET out == update_extraction_status(rows, Now, u, FALSE, FALSE,
                                               ExtrErrorMsg("extract", "import"), NULL)
           IN  /\ Cardinality(out) = Cardinality(rows)
               /\ \A r \in rows :
                     IF r.uri = u
                     THEN \E q \in out :
                             /\ q.extraction_error = ExtrErrorMsg("extract", "import")
                             /\ [q EXCEPT !.extraction_error = r.extraction_error] = r
                     ELSE r \in out

\* A conversion runner and an extraction runner have recorded a failure,
\* and the rows still carry the start times.
C12_Witness ==
    /\ \E r \in rows : /\ r.conversion_error \in ConversionFailures
                       /\ r.conversion_started_at # NoTime
                       /\ ~r.is_converted
    /\ \E r \in rows : /\ r.extraction_error \notin {NULL, ExtrInterruptedMsg}
                       /\ r.extraction_started_at # NoTime

\* C13: marking a conversion completed a second time with the same paths
\* leaves the row as the first call left it, but for the completion time:
\* flag true, the same two paths, error NULL; no row is added; and the
\* runner's second write of its outputs leaves the files as the first did.
\* Stated of the UPDATE and the writes applied to every table and file
\* system the system reaches.
C13_CompletedIdempotent ==
    \A u \in Uris :
        LET text_file_path == get_pdf_text_file_path(FileNameOf(u))
            images_folder == get_pdf_images_folder_path(FileNameOf(u))
            once == update_conversion_status(rows, Now, u, TRUE, FALSE, NULL,
                                             text_file_path, images_folder)
            twice == update_conversion_status(once, Now + 1, u, TRUE, FALSE, NULL,
                                              text_file_path, images_folder)
        IN  /\ Cardinality(twice) = Cardinality(rows)
            /\ \A q \in twice : \E r \in once :
                  /\ [q EXCEPT !.conversion_completed_at = r.conversion_completed_at] = r
                  /\ q.uri = u =>
                        /\ q.is_converted
                        /\ q.text_file_path = text_file_path
                        /\ q.images_folder_path = images_folder
                        /\ q.conversion_error = NULL
            /\ WriteOutputs(WriteOutputs(files, FileNameOf(u)), FileNameOf(u))
                   = WriteOutputs(files, FileNameOf(u))

\* A conversion has been marked completed and its outputs are written.
C13_Witness ==
    \E r \in rows :
        /\ r.is_converted
        /\ r.text_file_path = get_pdf_text_file_path(FileNameOf(r.uri))
        /\ files[r.text_file_path] = "text"
        /\ files[r.images_folder_path] = "images"

\* The rows of a list, as a set.
Range(rowseq) == {rowseq[i] : i \in DOMAIN rowseq}

\* C14: the pending-conversion list holds exactly the rows whose download
\* succeeded and whose conversion is not completed (rows started and rows
\* failed included), each once, in ascending processed_at order.
C14_PendingConversionList ==
    LET pending == get_pdfs_for_conversion(rows)
    IN  /\ Range(pending) = {r \in rows : /\ r.is_downloaded
                                          /\ r.status = "success"
                                          /\ ~r.is_converted}
        /\ Len(pending) = Cardinality(Range(pending))
        /\ \A i \in DOMAIN pending : \A j \in DOMAIN pending :
              i < j => pending[i].processed_at <= pending[j].processed_at

\* The list has two rows, the older in flight and the newer failed.
C14_Witness ==
    LET pending == get_pdfs_for_conversion(rows)
    IN  /\ Len(pending) = 2
        /\ pending[1].processed_at < pending[2].processed_at
        /\ pending[1].conversion_started_at # NoTime
        /\ pending[1].conversion_error = NULL
        /\ pending[2].conversion_error \in ConversionFailures

\* C15, as stated: the pending-extraction list holds exactly the rows
\* whose conversion is completed and whose extraction is not, each once,
\* in ascending conversion_completed_at order.
C15_PendingExtractionList ==
    LET pending == get_pdfs_for_extraction(rows)
    IN  /\ Range(pending) = {r \in rows : r.is_converted /\ ~r.is_extracted}
        /\ Len(pending) = Cardinality(Range(pending))
        /\ \A i \in DOMAIN pending : \A j \in DOMAIN pending :
              i < j => pending[i].conversion_completed_at
                          <= pending[j].conversion_completed_at

(***************************************************************************)
(* What the runners return.                                                *)
(***************************************************************************)
RunnerKinds == {"convert", "extract", "extract_selective"}

ExtractionFailures(kind) ==
    {ExtrErrorMsg(kind, cause) : cause \in {"not_found", "not_converted", "no_text", "import"}}

\* The runner that coroutine t is in returns in this step (the process is
\* not killed): t leaves the position it was awaiting in.
RunnerReturns(t) ==
    /\ t \in tasks
    /\ t.pc \in {"exec", "body"}
    /\ t \notin tasks'
    /\ phase' = "serving"

\* The data directory without the file at p.
MissingFile(fs, p) == [q \in DOMAIN fs |-> IF q = p THEN "absent" ELSE fs[q]]

ScheduledExtractions(ts, u) ==
    {t \in ts : t.kind = "extract" /\ t.origin = "background" /\ t.pc = "start" /\ t.uri = u}

\* C17: when a conversion succeeds and the extraction cannot be scheduled,
\* the runner returns success true, no extraction coroutine is created, and
\* every row of the locator is conversion-completed (flag set, completion
\* time now, both paths) with a null conversion error.
C17_ScheduleFailureKeepsSuccess ==
    [][(triggered' # NoTrigger /\ ~triggered'.scheduled) =>
          /\ result' = RunnerResult("convert", triggered'.uri, TRUE)
          /\ ScheduledExtractions(tasks', triggered'.uri)
                = ScheduledExtractions(tasks, triggered'.uri)
          /\ \A r \in RowsOf(rows', triggered'.uri) :
                /\ r.is_converted
                /\ r.conversion_completed_at = Now
                /\ r.conversion_error = NULL
                /\ r.text_file_path # NULL
                /\ r.images_folder_path # NULL]_vars

\* A conversion has just succeeded without its extraction being scheduled,
\* and its row is there.
C17_Witness ==
    /\ triggered # NoTrigger
    /\ ~triggered.scheduled
    /\ result.success
    /\ \E r \in RowsOf(rows, triggered.uri) : r.is_converted /\ r.conversion_error = NULL

\* C18: every conversion a runner completes successfully is followed by an
\* extraction attempt on the same locator without a further request.  The
\* step that returns the success has tried to schedule the extraction, and
\* when the scheduling succeeded a new extract_pdf_async coroutine of that
\* locator waits for its first run; such a coroutine stays until it runs
\* (or the process is killed), it can run whenever the loop is free, and
\* its first run stamps extraction_started_at of every row of the locator
\* with the current time (and clears its extraction error) while no request
\* is answered.
C18_CompletionStartsExtraction ==
    [][/\ (result'.kind = "convert" /\ result'.success) =>
             /\ triggered' # NoTrigger
             /\ triggered'.uri = result'.uri
             /\ triggered'.scheduled =>
                   \E t \in tasks' \ tasks :
                       t \in ScheduledExtractions(tasks', result'.uri)
       /\ \A t \in tasks :
             t \in ScheduledExtractions(tasks, t.uri) =>
                /\ (phase = "serving" /\ LoopFree) => ENABLED ExtractBegin(t)
                /\ \/ t \in tasks'
                   \/ phase' = "boot_conv" /\ tasks' = {}
                   \/ /\ tasks' = (tasks \ {t}) \cup {[t EXCEPT !.pc = "body"]}
                      /\ resp' = NoResponse
                      /\ \A r \in RowsOf(rows, t.uri) :
                            \E q \in After(r) :
                                q = [r EXCEPT !.extraction_started_at = Now,
                                              !.extraction_error = NULL]]_vars

\* A scheduled extraction has had its first run on a converted row: the
\* row carries the start time and the coroutine is in its body.
C18_Witness ==
    \E t \in tasks :
        /\ t.kind = "extract" /\ t.origin = "background" /\ t.pc = "body"
        /\ \E r \in RowsOf(rows, t.uri) :
              /\ r.is_converted
              /\ r.extraction_started_at = Now
              /\ r.extraction_error = NULL

(***************************************************************************)
(* The queue drains.                                                       *)
(***************************************************************************)
IsDrain(t) == t.kind \in {"convert_queue", "extract_queue"}

\* The locator whose runner the drain awaits, as a list of one or none.
Running(t) == IF t.pc \in {"exec", "body"} THEN <<t.uri>> ELSE <<>>

\* The locators of the outcomes in a drain's results.
Processed(t) == [i \in 1..Len(t.results) |-> t.results[i].uri]

\* The drain t takes a step and goes on as d.
DrainGoesOn(t, d) ==
    /\ t \in tasks /\ IsDrain(t) /\ t \notin tasks'
    /\ d \in tasks' \ tasks /\ d.slot = t.slot /\ d.kind = t.kind

\* The column a drain's list is ordered by.
FetchKey(t, r) ==
    IF t.kind = "convert_queue" THEN r.processed_at ELSE r.conversion_completed_at

\* C19: within one drain the records are processed strictly serially in
\* the fetched order, oldest first.  The list a drain fetches is ascending
\* in its ordering column and names no locator twice; at every moment the
\* locators already returned, the one whose runner is awaited (at most
\* one) and the rest of the list make up the fetched list in order; and a
\* runner is started only when none is awaited, on the next locator of the
\* fetched list, which the drain has not run before.
C19_DrainSerialInOrder ==
    [][/\ \A t \in tasks :
             (IsDrain(t) /\ t.pc # "start") =>
                /\ Processed(t) \o Running(t) \o t.pending = t.fetched
                /\ \A i, j \in 1..Len(t.fetched) :
                      i # j => t.fetched[i] # t.fetched[j]
       /\ \A t \in tasks : \A d \in tasks' :
             DrainGoesOn(t, d) =>
                /\ t.pc = "start" =>
                      \A i, j \in 1..Len(d.fetched) :
                          i < j =>
                             \E ri \in RowsOf(rows, d.fetched[i]) :
                             \E rj \in RowsOf(rows, d.fetched[j]) :
                                 FetchKey(t, ri) < FetchKey(t, rj)
                /\ t.pc # "start" => d.fetched = t.fetched
                /\ Len(Processed(d) \o Running(d)) > Len(Processed(t) \o Running(t)) =>
                      LET u == (Processed(d) \o Running(d))[Len(t.results) + 1]
                      IN  /\ t.pc \in {"start", "sleep"}
                          /\ Running(t) = <<>>
                          /\ u = d.fetched[Len(t.results) + 1]
                          /\ \A i \in 1..Len(t.results) : t.results[i].uri # u
                          /\ Len(Processed(d) \o Running(d)) = Len(t.results) + 1]_vars

\* A drain has fetched two records, the runner of the older one has
\* returned, and it awaits the runner of the newer one.
C19_Witness ==
    \E t \in tasks :
        /\ IsDrain(t)
        /\ Len(t.fetched) = 2
        /\ Len(t.results) = 1
        /\ t.results[1].uri = t.fetched[1]
        /\ Running(t) = <<t.fetched[2]>>

\* The drain t returns in this step: its coroutine is over and the process
\* is not killed.
DrainReturns(t) ==
    /\ t \in tasks /\ IsDrain(t)
    /\ phase' = "serving"
    /\ \A d \in tasks' : ~(d.slot = t.slot /\ d.kind = t.kind)

\* The pending list of the drain's stage, read now.
PendingNow(t) ==
    IF t.kind = "convert_queue"
    THEN UrisOf(get_pdfs_for_conversion(rows))
    ELSE UrisOf(get_pdfs_for_extraction(rows))

StoredPaths(row) ==
    {row.file_path, row.text_file_path, row.images_folder_path,
     row.extraction_file_path} \cap AllPaths

\* C21: delete on a locator that has a row removes that row and returns
\* true, whether its artifacts are there or not; on a locator with no row
\* it returns false and leaves the table and the files as they are; either
\* way every other row stays as it is.  And however many of the removals
\* are carried out before one raises, the row is deleted all the same and
\* no file but the row's own is touched.
C21_DeleteByLocator ==
    [][/\ result'.kind = "delete" =>
             /\ result'.success = (RowsOf(rows, result'.uri) # {})
             /\ rows' = {r \in rows : r.uri # result'.uri}
             /\ ~result'.success => (rows' = rows /\ files' = files)
             /\ \A row \in RowsOf(rows, result'.uri) : \A done \in 0..4 :
                   LET fs1 == RemoveArtifacts(files, row, done)
                   IN  /\ delete_processed_pdf(rows, row.uri) = rows \ {row}
                       /\ \A p \in AllPaths \ StoredPaths(row) : fs1[p] = files[p]
                       /\ \A p \in AllPaths : fs1[p] \in {files[p], "absent"}]_vars

\* A delete has returned true for a row with no download and no
\* artifacts, and another row is still in the table.
C21_Witness ==
    /\ result.kind = "delete"
    /\ result.success
    /\ RowsOf(rows, result.uri) = {}
    /\ rows # {}
    /\ files[get_pdf_file_path(FileNameOf(result.uri))] = "absent"
    /\ files[get_pdf_text_file_path(FileNameOf(result.uri))] = "absent"

\* C22, as stated: a delete that returns true leaves none of the files that
\* the row's stored paths name under the base directory.
C22_DeleteRemovesArtifacts ==
    [][(result'.kind = "delete" /\ result'.success) =>
          \A row \in RowsOf(rows, result'.uri) :
              \A p \in StoredPaths(row) : files'[p] = "absent"]_vars

(***************************************************************************)
(* Content duplicates.                                                     *)
(***************************************************************************)
\* The rows of other locators whose downloaded file holds the bytes that
\* this step has downloaded for u.
SameBytes(u) ==
    {r \in rows : /\ r.uri # u
                  /\ r.is_downloaded /\ r.status = "success"
                  /\ r.file_path \in AllPaths
                  /\ files[r.file_path] \in Contents
                  /\ files'[get_pdf_file_path(FileNameOf(u))] = files[r.file_path]}

\* C23, as stated: when POST /pdfs downloads for a locator the bytes that
\* the downloaded file of another locator holds, the response carries the
\* duplicate flag and names a row of another locator with those bytes, and
\* the new row is stored as downloaded with status success.
C23_ContentDuplicateFlagged ==
    [][\A u \in Uris :
          (Stored(u) /\ resp'.database_id # 0 /\ SameBytes(u) # {}) =>
             /\ resp'.body = "content_duplicate"
             /\ resp'.record \in SameBytes(u)
             /\ \E q \in RowsOf(rows', u) :
                   /\ q.id = resp'.database_id
                   /\ q.is_downloaded /\ q.status = "success"
                   /\ q.error_message = NULL]_vars

(***************************************************************************)
(* End to end.                                                             *)
(***************************************************************************)
\* Row r waits for its conversion.
ConversionPending(r) ==
    /\ r.is_downloaded /\ r.status = "success"
    /\ ~r.is_converted
    /\ r.conversion_started_at = NoTime /\ r.conversion_completed_at = NoTime
    /\ r.conversion_error = NULL
    /\ r.text_file_path = NULL /\ r.images_folder_path = NULL

\* C24: from download to conversion.  A POST /pdfs that downloads stores a
\* row that is downloaded, with its conversion pending and listed by
\* get_pdfs_for_conversion; POST /convert on a row whose file is there
\* marks the start and has the runner await the engine; and when the
\* engine succeeds and the runner returns success, every row of the
\* locator is conversion-completed with the text path of the runner's
\* file, and that text file is written.
C24_DownloadToConversion ==
    [][/\ \A u \in Uris :
             (Stored(u) /\ resp'.database_id # 0) =>
                \E q \in RowsOf(rows', u) :
                    /\ q.id = resp'.database_id
                    /\ ConversionPending(q)
                    /\ q \in Range(get_pdfs_for_conversion(rows'))
       /\ \A t \in tasks' \ tasks :
             (t.kind = "convert" /\ t.origin = "request") =>
                /\ t.pc = "exec"
                /\ \E r \in RowsOf(rows, t.uri) :
                      /\ r.is_downloaded /\ r.status = "success" /\ ~r.is_converted
                      /\ [r EXCEPT !.conversion_started_at = Now,
                                   !.conversion_error = NULL] \in rows'
                      /\ t.filename = r.filename
       /\ \A t \in tasks :
             (t.pc = "exec" /\ t \notin tasks' /\ result' = RunnerResult("convert", t.uri, TRUE)) =>
                /\ files'[get_pdf_text_file_path(t.filename)] = "text"
                /\ \A q \in RowsOf(rows', t.uri) :
                      /\ q.is_converted
                      /\ q.conversion_completed_at = Now
                      /\ q.conversion_error = NULL
                      /\ q.text_file_path = get_pdf_text_file_path(t.filename)
                      /\ q.text_file_path # NULL]_vars

\* The row that POST /pdfs stored for a locator has been converted on a
\* request: the runner has just returned success and the row carries the
\* path of the text file, which exists.
C24_Witness ==
    /\ result.kind = "convert" /\ result.success
    /\ \E r \in RowsOf(rows, result.uri) :
          /\ r.id = 1
          /\ r.is_downloaded /\ r.is_converted
          /\ r.text_file_path = get_pdf_text_file_path(r.filename)
          /\ files[r.text_file_path] = "text"
    /\ \A t \in tasks : t.kind # "convert_queue"

\* Row r is ready for extraction: converted, with its text file there.
ReadyForExtraction(fs, r) ==
    /\ r.is_converted
    /\ PathExists(fs, r.text_file_path)

\* C25: from conversion to extraction.  When an extraction runner that was
\* started on a converted row whose text file exists returns, the row is
\* extraction-completed with a non-null result path whose file exists.
C25_ConversionToExtraction ==
    [][\A t \in tasks :
          (/\ t.pc = "body" /\ RunnerOf(t.kind) = "extract"
           /\ result'.kind = "extract" /\ result'.uri = t.uri
           /\ \E r \in RowsOf(rows, t.uri) : ReadyForExtraction(files, r)) =>
             \A q \in RowsOf(rows', t.uri) :
                 /\ q.is_extracted
                 /\ q.extraction_file_path # NULL
                 /\ PathExists(files', q.extraction_file_path)]_vars

(***************************************************************************)
(* Stored paths.                                                           *)
(***************************************************************************)
\* The path string s names a path under BASE_DIR (or BASE_DIR itself).
UnderBase(s) == relative_to(PathOf(s), BASE_DIR) # ValueError

\* C26: a stored path reads back as the path that was stored.  For an
\* absolute path p, resolve_file_path(make_path_relative(p)) is Path(p); p
\* under the base directory is stored as a relative string that the base
\* directory joined with gives p, and p outside it is stored unchanged.
\* make_path_relative returns a relative string unchanged, and is
\* idempotent.  resolve_file_path of a relative string is the base
\* directory joined with it, and of an absolute one is that path.
C26_PathRoundTrip ==
    /\ (ret.op = "round_trip" /\ is_absolute(PathOf(arg))) =>
          ret.value = PathOf(arg)
    /\ ret.op = "make_path_relative" =>
          /\ (is_absolute(PathOf(arg)) /\ UnderBase(arg)) =>
                /\ ~is_absolute(PathOf(ret.value))
                /\ JoinPath(BASE_DIR, PathOf(ret.value)) = PathOf(arg)
          /\ (is_absolute(PathOf(arg)) /\ ~UnderBase(arg)) => ret.value = arg
          /\ ~is_absolute(PathOf(arg)) => ret.value = arg
          /\ make_path_relative(ret.value) = ret.value
    /\ ret.op = "resolve_file_path" =>
          /\ ~is_absolute(PathOf(arg)) =>
                ret.value = [root |-> BASE_DIR.root,
                             parts |-> BASE_DIR.parts \o PathOf(arg).parts]
          /\ is_absolute(PathOf(arg)) => ret.value = PathOf(arg)

\* "/app/data//app" has been stored and read back: it is under the base
\* directory, its stored form is not the string that came in, and it
\* resolves to the path that was stored.
C26_Witness ==
    /\ ret.op = "round_trip"
    /\ arg = [root |-> "/", segs |-> <<"app", "data", "">>]
    /\ make_path_relative(arg) = [root |-> "", segs |-> <<"data">>]
    /\ ret.value = [root |-> "/", parts |-> <<"app", "data">>]

(***************************************************************************)
(* The manual trigger endpoints.                                           *)
(***************************************************************************)
\* The request names a field or a model that the template does not have.
UnknownNames(request) ==
    \/ \E i \in DOMAIN request.selected_fields :
          request.selected_fields[i] \notin Range(TemplateFields)
    \/ \E i \in DOMAIN request.selected_models :
          request.selected_models[i] \notin Range(TemplateModels)

\* The step refused: table, coroutines and files are as they were.
StoreUnchanged == rows' = rows /\ tasks' = tasks /\ files' = files

\* C27: POST /extract/{paper_id}/selective with an unknown field or an
\* unknown model answers with a client error and changes nothing: no
\* extraction is marked started and none runs.  With known names, on a
\* converted record, it calls the selective runner on the record's
\* locator with exactly the requested fields and with the requested
\* models, or with all the template's models when none are given.
C27_SelectiveValidation ==
    [][(http'.endpoint = "extract_selective" /\ http'.status # 500) =>
       \A id \in PaperIds, request \in SelectiveRequests :
          ExtractSelectivePdf(id, request) =>
             LET pdf == get_processed_pdf_by_id(rows, id)
             IN  /\ UnknownNames(request) =>
                       /\ http'.status \in 400..499
                       /\ http'.call = NoCall
                       /\ StoreUnchanged
                 /\ (~UnknownNames(request) /\ pdf # NoRow /\ pdf.is_converted) =>
                       /\ http'.status = 200
                       /\ http'.call =
                             Call("extract_pdf_selective_async", pdf.uri,
                                  request.selected_fields,
                                  IF request.selected_models = <<>>
                                  THEN TemplateModels
                                  ELSE request.selected_models)
                       /\ \E t \in tasks' \ tasks :
                             t.kind = "extract_selective" /\ t.uri = pdf.uri]_vars

\* A selective request was just refused with 400 although every record is
\* converted: its names were refused; no extraction has been started.
C27_Witness ==
    /\ http.endpoint = "extract_selective" /\ http.status = 400
    /\ rows # {}
    /\ \A r \in rows : r.is_converted /\ r.extraction_started_at = NoTime
    /\ tasks = {}

\* C28: POST /convert/{uri} and POST /extract/{paper_id} answer 404 for a
\* missing record; conversion answers 400 for a record that is not
\* successfully downloaded and does not run again for a converted record;
\* extraction answers 400 for a record that is not converted; a request
\* that was answered can also meet a failure of the store, and is then
\* answered with 500; and every refusal leaves the store as it was.
C28_TriggerErrorMapping ==
    [][/\ \A u \in Uris :
             (/\ http'.endpoint = "convert" /\ http'.status # 500
              /\ ConvertSinglePdf(u)) =>
                LET pdf == get_processed_pdf(rows, u)
                IN  /\ pdf = NoRow => (http'.status = 404 /\ StoreUnchanged)
                    /\ (pdf # NoRow /\ (~pdf.is_downloaded \/ pdf.status # "success")) =>
                          (http'.status = 400 /\ StoreUnchanged)
                    /\ (pdf # NoRow /\ pdf.is_downloaded /\ pdf.status = "success"
                          /\ pdf.is_converted) =>
                          /\ http'.status = 200 /\ http'.call = NoCall
                          /\ StoreUnchanged
       /\ \A id \in PaperIds :
             (/\ http'.endpoint = "extract" /\ http'.status # 500
              /\ ExtractSinglePdf(id)) =>
                LET pdf == get_processed_pdf_by_id(rows, id)
                IN  /\ pdf = NoRow => (http'.status = 404 /\ StoreUnchanged)
                    /\ (pdf # NoRow /\ ~pdf.is_converted) =>
                          (http'.status = 400 /\ StoreUnchanged)
       /\ http'.status \in {400, 404, 500} =>
             /\ http'.call = NoCall
             /\ StoreUnchanged
       /\ (http'.endpoint = "convert" /\ http'.status # 500) =>
             \A u \in Uris : ENABLED (ConvertSinglePdf(u) /\ http'.status = 500)]_vars

\* Conversion of a record whose download failed was just refused with 400.
C28_Witness ==
    /\ http.endpoint = "convert" /\ http.status = 400
    /\ \E r \in rows : r.status = "error" /\ ~r.is_downloaded /\ ~r.is_converted
    /\ tasks = {}

(***************************************************************************)
(* Oversized texts.                                                        *)
(***************************************************************************)
\* C29: for a text whose estimated token count exceeds the context limit,
\* summarize_and_chunk under strategy chunk returns at least 2 chunks, and
\* every chunk it returns is, estimated again, within the context limit
\* minus the reserve of 1000 tokens.
C29_ChunksFitBudget ==
    (/\ ret.op = "summarize_and_chunk"
     /\ estimate_tokens(arg.text, arg.estimator) > get_context_limit("default")) =>
        /\ Len(ret.value) >= 2
        /\ \A i \in 1..Len(ret.value) :
              estimate_tokens(ret.value[i], arg.estimator)
                 <= get_context_limit("default") - ChunkReserve

(***************************************************************************)
(* Extraction results grow.                                                *)
(***************************************************************************)
\* The (model, summary type) pairs that the call asks for.
RequestedPairs(call) ==
    {<<call.models[i], summary_fields(call.fields)[j]>> :
        i \in DOMAIN call.models, j \in DOMAIN summary_fields(call.fields)}

\* C30: a run extends the result it was given and never replaces it.  The
\* summaries a run returns begin with the summaries it was given, entry
\* for entry; they hold at most one entry for a (model, summary type)
\* pair; and when every pair the run asks for was there already, it
\* returns what it was given.
C30_ExtendsNeverReplaces ==
    ret.op \in {"extract_summaries", "extract_selective_structured_data", "raised"} =>
       /\ Len(arg.existing_summaries) <= Len(ret.value)
       /\ SubSeq(ret.value, 1, Len(arg.existing_summaries)) = arg.existing_summaries
       /\ \A i, j \in DOMAIN ret.value :
             (ret.value[i].model = ret.value[j].model
              /\ ret.value[i].type = ret.value[j].type) => i = j
       /\ (\A pair \in RequestedPairs(arg) :
              HasSummary(arg.existing_summaries, pair[1], pair[2])) =>
             ret.value = arg.existing_summaries

\* A full run has just extended a result that selective runs had made: it
\* kept their entries, among them one for a pair it asks for itself, and
\* added its own.
C30_Witness ==
    /\ ret.op = "extract_summaries"
    /\ HasSummary(arg.existing_summaries, "phi4:14b", "abstract")
    /\ \E i \in DOMAIN arg.existing_summaries :
          arg.existing_summaries[i] = SummaryEntry("deepseek-r1:14b", "abstract", TRUE)
    /\ Len(ret.value) > Len(arg.existing_summaries)
    /\ \E i \in DOMAIN ret.value :
          ret.value[i] = SummaryEntry("deepseek-r1:14b", "findings", FALSE)

(***************************************************************************)
(* Overlapping runs.                                                       *)
(***************************************************************************)
\* Another extraction of t's locator is alive on the event loop.
OverlappingExtraction(t) ==
    \E o \in tasks \ {t} :
        /\ o.uri = t.uri
        /\ o.kind \in {"extract", "extract_selective"}

\* C31: two overlapping extraction runs on one record each read the
\* existing result, extend it and write the result file, so that the file
\* one leaves can lack the other's entries.  Stated for one run: an
\* extraction run on a converted record whose text file is there, ending
\* while another extraction of the record is alive, has written the
\* record's result file.
C31_OverlappingRunsWrite ==
    [][\A t \in tasks :
          (/\ t.pc = "body" /\ t.kind \in {"extract", "extract_selective"}
           /\ t \notin tasks'
           /\ result'.kind = RunnerOf(t.kind) /\ result'.uri = t.uri
           /\ OverlappingExtraction(t)
           /\ \E r \in RowsOf(rows, t.uri) : ReadyForExtraction(files, r)) =>
             \A q \in RowsOf(rows', t.uri) :
                 PathExists(files', ExtractionFilePath(q.filename))]_vars


(* Stage transitions and the other rows. *)
\* The rows of every locator but u.
OtherRows(rs, u) == {r \in rs : r.uri # u}

\* A step of a running server that is neither a submission nor a removal
\* and changes the table: a runner or a trigger endpoint marking a stage
\* started, completed or failed.
StageUpdate ==
    /\ phase = "serving" /\ phase' = "serving"
    /\ seq' = seq
    /\ result'.kind # "delete"
    /\ rows' # rows

\* C32: a stage transition is an update of the one row of its locator:
\* marking a stage started, completed or failed for one document leaves
\* every row of every other document as it was, and adds or removes no row.
C32_StageUpdateFrame ==
    [][StageUpdate =>
         \E u \in Uris :
             /\ OtherRows(rows', u) = OtherRows(rows, u)
             /\ Cardinality(RowsOf(rows', u)) = 1
             /\ Cardinality(RowsOf(rows, u)) = 1]_vars

\* A conversion runner has ended for one of two stored documents, the
\* other one untouched by any stage.
C32_Witness ==
    /\ result.kind = "convert"
    /\ \E r \in rows : r.uri # result.uri /\ r.conversion_started_at = NoTime
                       /\ r.conversion_error = NULL /\ r.is_downloaded
    /\ \E r \in rows : r.uri = result.uri /\ r.conversion_started_at # NoTime


(* The duplicate flag of a submission. *)
\* The successfully downloaded rows of other locators than u that hold the
\* content fingerprint h.
OtherHolders(rs, u, h) ==
    {r \in rs : /\ r.uri # u /\ r.content_hash = h
                /\ r.is_downloaded /\ r.status = "success"}

\* C33: when POST /pdfs has downloaded and stored a document, its answer
\* carries the duplicate flag only if a record of another locator holds the
\* fingerprint of the downloaded bytes; and if no other record holds it, the
\* answer is the unflagged one (queued for conversion) and the conversion
\* runner of the locator has been added to the background tasks.
C33_FlagOnlyForOtherRecord ==
    [][resp'.database_id # 0 =>
         LET u == resp'.uri
             h == hash_file_content(files', get_pdf_file_path(FileNameOf(u)))
         IN  /\ resp'.body = "content_duplicate" => OtherHolders(rows', u, h) # {}
             /\ OtherHolders(rows', u, h) = {} =>
                   /\ resp'.body = "queued"
                   /\ \E t \in tasks' \ tasks :
                         t.kind = "convert" /\ t.uri = u /\ t.origin = "background"]_vars


(***************************************************************************)
(* main.py: the routes of the application, in the order their decorators   *)
(* register them.                                                          *)
(***************************************************************************)
Route(method, pattern, endpoint) ==
    [method |-> method, pattern |-> pattern, endpoint |-> endpoint]

\* app.get / app.post / app.delete, top to bottom.  {uri:path} matches the
\* rest of the path, {paper_id} one segment.
Routes ==
    << Route("GET", <<"health">>, "health"),
       Route("POST", <<"pdfs">>, "process_pdf_endpoint"),
       Route("GET", <<"pdfs">>, "get_all_pdfs"),
       Route("GET", <<"pdfs", "{uri:path}">>, "get_pdf_by_uri"),
       Route("DELETE", <<"pdfs", "{uri:path}">>, "delete_pdf_by_uri"),
       Route("POST", <<"convert", "{uri:path}">>, "convert_single_pdf"),
       Route("POST", <<"convert", "process-queue">>, "process_conversion_queue_endpoint"),
       Route("GET", <<"stats">>, "get_stats"),
       Route("POST", <<"extract", "{paper_id}">>, "extract_single_pdf"),
       Route("POST", <<"extract", "process-queue">>, "process_extraction_queue_endpoint"),
       Route("GET", <<"extract", "template">>, "get_extraction_template_endpoint"),
       Route("GET", <<"extract", "{paper_id}">>, "get_extraction_results"),
       Route("POST", <<"extract", "{paper_id}", "selective">>, "extract_selective_pdf") >>

Methods == {"GET", "POST", "DELETE"}

\* The segments of a request path.
RequestSegments ==
    {"health", "pdfs", "convert", "extract", "stats", "process-queue",
     "template", "selective", "1", "a.pdf"}

RequestPaths == UNION {[1..n -> RequestSegments] : n \in 1..MaxSegs}

Requests == [root : Methods, segs : RequestPaths]

\* The path regex of a route against the segments of a request path.
RECURSIVE PathMatches(_, _)
PathMatches(pattern, path) ==
    IF pattern = <<>> THEN path = <<>>
    ELSE IF Head(pattern) = "{uri:path}" THEN path # <<>>
    ELSE IF path = <<>> THEN FALSE
    ELSE /\ Head(pattern) \in {"{paper_id}", Head(path)}
         /\ PathMatches(Tail(pattern), Tail(path))

\* paper_id: int: the segment bound to the parameter must be a number for
\* the handler's body to run; otherwise the route answers 422.
IntSegments == {"1"}

RECURSIVE ParamsValid(_, _)
ParamsValid(pattern, path) ==
    IF pattern = <<>> \/ path = <<>> THEN TRUE
    ELSE /\ Head(pattern) = "{paper_id}" => Head(path) \in IntSegments
         /\ ParamsValid(Tail(pattern), Tail(path))

\* The first route of the table, from index i on, whose path and method
\* match; failing that 405 if some path matched, 404 otherwise.
RECURSIVE dispatch(_, _, _, _)
dispatch(routes, i, request, partial) ==
    IF i > Len(routes) THEN
        [endpoint |-> "", status |-> IF partial THEN 405 ELSE 404]
    ELSE IF ~PathMatches(routes[i].pattern, request.segs) THEN
        dispatch(routes, i + 1, request, partial)
    ELSE IF routes[i].method # request.root THEN
        dispatch(routes, i + 1, request, TRUE)
    ELSE [endpoint |-> routes[i].endpoint,
          status |-> IF ParamsValid(routes[i].pattern, request.segs)
                     THEN 200 ELSE 422]

\* A request arrives and the application picks its route.
Dispatch ==
    /\ ret.op = "none"
    /\ ret' = Out("dispatch", dispatch(Routes, 1, arg, FALSE))
    /\ UNCHANGED arg
    /\ Idle

InitRoutes ==
    /\ rows = {}
    /\ seq = 0
    /\ clock = 0
    /\ files = [p \in AllPaths |-> "absent"]
    /\ tasks = {}
    /\ phase = "boot_conv"
    /\ resp = NoResponse
    /\ result = NoResult
    /\ triggered = NoTrigger
    /\ cwd = "base"
    /\ arg \in Requests
    /\ ret = NoOut
    /\ http = Untraced

NextRoutes == Dispatch

SpecRoutes == InitRoutes /\ [][NextRoutes]_vars

\* C34: POST /convert/process-queue is answered by the endpoint that
\* drains the conversion queue and POST /extract/process-queue by the one
\* that drains the extraction queue, not by the single-document handlers.
C34_QueueRoutesReachDrains ==
    ret.op = "dispatch" /\ arg.root = "POST" =>
        /\ arg.segs = <<"convert", "process-queue">> =>
              ret.value.endpoint = "process_conversion_queue_endpoint"
        /\ arg.segs = <<"extract", "process-queue">> =>
              ret.value.endpoint = "process_extraction_queue_endpoint"


(* Truncation. *)
\* C35: truncate_text returns a prefix of its input whose estimated token
\* count is within the context limit minus the reserve, whatever the input
\* and the reserve (a reserve at or above the limit included); an input
\* that is within that budget already is returned as it is.
C35_TruncateFits ==
    ret.op = "truncate_text" =>
        LET max_tokens == get_context_limit("default") - arg.reserve
            out == ret.value[1]
        IN  /\ Len(out) <= Len(arg.text)
            /\ out = Prefix(arg.text, Len(out))
            /\ estimate_tokens(out, arg.estimator) <= max_tokens
            /\ estimate_tokens(arg.text, arg.estimator) <= max_tokens => out = arg.text


(***************************************************************************)
(* llm/context_utils.py: extract_key_sections and the strategies of        *)
(* summarize_and_chunk.  A paper is a sequence of lines: a header line     *)
(* ("abstract", "references": a few characters, below the grain of 1000    *)
(* tokens) or a piece of content of 4000 characters.                       *)
(***************************************************************************)
MaxLines == 6

Headers == {"abstract", "references"}

Papers == UNION {[1..n -> Headers \cup Pieces] : n \in 0..MaxLines}

\* section_priorities; 8 is the priority of the section a paper opens with.
section_priorities(title) ==
    IF title = "abstract" THEN 10 ELSE IF title = "references" THEN 1 ELSE 8

Section(title, content) ==
    [title |-> title, content |-> content, priority |-> section_priorities(title)]

\* The loop over the lines: a header line closes the current section, kept
\* if it has content, and opens the next one.
RECURSIVE SplitSections(_, _, _)
SplitSections(lines, current_section, sections) ==
    LET closed == IF current_section.content # <<>>
                  THEN Append(sections, current_section) ELSE sections
    IN  IF lines = <<>> THEN closed
        ELSE IF Head(lines) \in Headers
        THEN SplitSections(Tail(lines), Section(Head(lines), <<>>), closed)
        ELSE SplitSections(Tail(lines),
                           [current_section EXCEPT !.content = Append(@, Head(lines))],
                           sections)

RECURSIVE WithPriority(_, _)
WithPriority(sections, priority) ==
    IF sections = <<>> THEN <<>>
    ELSE (IF Head(sections).priority = priority THEN <<Head(sections)>> ELSE <<>>)
         \o WithPriority(Tail(sections), priority)

\* sections.sort(key=priority, reverse=True): a stable sort.
SortSections(sections) ==
    WithPriority(sections, 10) \o WithPriority(sections, 8) \o WithPriority(sections, 1)

\* The loop that builds condensed_text: whole sections while they fit in
\* max_tokens, then what truncate_text leaves of the next one if more than
\* 100 tokens remain.
RECURSIVE Condense(_, _, _, _)
Condense(sections, estimator, max_tokens, condensed_text) ==
    IF sections = <<>> THEN condensed_text
    ELSE LET section_text == Head(sections).content
             remaining_tokens == max_tokens - estimate_tokens(condensed_text, estimator)
         IN  IF estimate_tokens(condensed_text \o section_text, estimator) <= max_tokens
             THEN Condense(Tail(sections), estimator, max_tokens,
                           condensed_text \o section_text)
             ELSE IF remaining_tokens > 0
             THEN condensed_text \o
                  truncate_text(section_text, estimator,
                                estimate_tokens(condensed_text, estimator))
             ELSE condensed_text

extract_key_sections(text, estimator) ==
    Condense(SortSections(SplitSections(text, Section("Introduction", <<>>), <<>>)),
             estimator, get_context_limit("default") - ChunkReserve, <<>>)

\* The content of a paper as chunk_text_intelligently splits it.
Content(text) == SelectSeq(text, LAMBDA line : line \in Pieces)

\* strategy "truncate" (a reserve of 500 tokens) is below the grain.
Strategies == {"chunk", "extract_key", "intelligent", "summary"}

\* summarize_and_chunk(text, model, strategy)
summarize_and_chunk_by(text, estimator, strategy) ==
    IF strategy = "chunk" THEN
        Out("summarize_and_chunk", chunk_text_intelligently(Content(text), estimator))
    ELSE IF strategy = "extract_key" THEN
        Out("summarize_and_chunk", <<extract_key_sections(text, estimator)>>)
    ELSE IF strategy = "intelligent" THEN
        LET condensed == extract_key_sections(text, estimator)
        IN  IF estimate_tokens(condensed, estimator)
                  > get_context_limit("default") - ChunkReserve
            THEN Out("summarize_and_chunk", chunk_text_intelligently(condensed, estimator))
            ELSE Out("summarize_and_chunk", <<condensed>>)
    ELSE Out("ValueError", <<>>)

SummarizeAndChunkBy ==
    /\ ret.op = "none"
    /\ ret' = summarize_and_chunk_by(arg.text, arg.estimator, arg.strategy)
    /\ UNCHANGED arg
    /\ Idle

InitSections ==
    /\ rows = {}
    /\ seq = 0
    /\ clock = 0
    /\ files = [p \in AllPaths |-> "absent"]
    /\ tasks = {}
    /\ phase = "boot_conv"
    /\ resp = NoResponse
    /\ result = NoResult
    /\ triggered = NoTrigger
    /\ cwd = "base"
    /\ arg \in [text : Papers, estimator : Estimators, strategy : Strategies]
    /\ ret = NoOut
    /\ http = Untraced

NextSections == SummarizeAndChunkBy

SpecSections == InitSections /\ [][NextSections]_vars

\* C36: under the strategies extract_key and intelligent every text that
\* summarize_and_chunk returns is, estimated again, within the context
\* limit minus 1000 tokens, also when the last section taken is taken in
\* part; and a strategy name that is none of the known ones raises an error.
C36_KeySectionsFitBudget ==
    /\ (ret.op = "summarize_and_chunk" /\ arg.strategy \in {"extract_key", "intelligent"}) =>
           \A i \in 1..Len(ret.value) :
               estimate_tokens(ret.value[i], arg.estimator)
                  <= get_context_limit("default") - ChunkReserve
    /\ (ret.op # "none" /\ arg.strategy = "summary") => ret.op = "ValueError"


(***************************************************************************)
(* database.py get_processing_stats: GET /stats.                           *)
(***************************************************************************)
get_processing_stats(rs) ==
    [total_processed |-> Cardinality(rs),
     successful_downloads |->
         Cardinality({r \in rs : r.status = "success" /\ r.is_downloaded}),
     failed_attempts |-> Cardinality({r \in rs : r.status = "error"}),
     converted_pdfs |-> Cardinality({r \in rs : r.is_converted}),
     pending_conversion |->
         Cardinality({r \in rs : r.is_downloaded /\ ~r.is_converted}),
     extracted_pdfs |-> Cardinality({r \in rs : r.is_extracted}),
     pending_extraction |->
         Cardinality({r \in rs : r.is_converted /\ ~r.is_extracted})]

\* C37: the statistics agree with the pending queries: pending_conversion
\* is the number of rows get_pdfs_for_conversion returns,
\* pending_extraction the number get_pdfs_for_extraction returns, and
\* total_processed is successful_downloads plus failed_attempts.
C37_StatsAgreeWithQueries ==
    LET stats == get_processing_stats(rows)
    IN  /\ stats.pending_conversion = Len(get_pdfs_for_conversion(rows))
        /\ stats.pending_extraction = Len(get_pdfs_for_extraction(rows))
        /\ stats.total_processed = stats.successful_downloads + stats.failed_attempts


(***************************************************************************)
(* Two documents with one file name: the server of Init, asked about the   *)
(* locators of SameNameUris.                                               *)
(***************************************************************************)
NextSameName ==
    \/ LifespanResetConversions
    \/ LifespanResetExtractions
    \/ \E u \in SameNameUris : ProcessPdfEndpoint(u)
    \/ \E u \in SameNameUris : DeletePdfByUri(u)
    \/ \E u \in SameNameUris : ConvertSinglePdf(u)
    \/ \E t \in tasks : ConvertFinish(t)

SpecSameName == Init /\ [][NextSameName]_vars

\* C38: two distinct records that are successful downloads have distinct
\* storage paths and distinct output folders (so that what is done to the
\* files of one document leaves the files of the other alone).
C38_DistinctStorage ==
    \A r, q \in rows :
        (/\ r.uri # q.uri
         /\ r.is_downloaded /\ r.status = "success"
         /\ q.is_downloaded /\ q.status = "success") =>
            /\ r.file_path # q.file_path
            /\ get_pdf_text_file_path(r.filename) # get_pdf_text_file_path(q.filename)
            /\ get_pdf_images_folder_path(r.filename)
                  # get_pdf_images_folder_path(q.filename)


(* Runners that outlive their record. *)
\* C39: a stage runner that ends after its record was deleted does not
\* bring the record back.  A locator that has no row gets one only by a
\* submission (POST /pdfs storing a new row for it): no write of a stage
\* runner, started, completed or failed, makes a row for it.
C39_RunnerNeverRestoresRow ==
    [][\A u \in Uris :
          (RowsOf(rows, u) = {} /\ RowsOf(rows', u) # {}) =>
              /\ seq' = seq + 1
              /\ resp'.uri = u
              /\ result' = NoResult]_vars

\* An extraction runner has ended for a locator whose row was deleted while
\* it ran, and the locator has no row.
C39_Witness ==
    /\ result.kind = "extract"
    /\ RowsOf(rows, result.uri) = {}
    /\ files[get_pdf_text_file_path(FileNameOf(result.uri))] = "absent"
    /\ seq >= 1


(***************************************************************************)
(* llm/llm.py extract_questions: the loop that reduces a text too large    *)
(* for a model, for one model of model_list.                               *)
(***************************************************************************)
\* Iterations of the loop that a run of the model follows.
MaxIterations == 2

\* "\n\n".join(processed_chunks)
RECURSIVE JoinChunks(_)
JoinChunks(chunks) ==
    IF chunks = <<>> THEN <<>> ELSE Head(chunks) \o JoinChunks(Tail(chunks))

\* The locals of extract_questions at the test of its while loop.
Locals(processed_text, token_count, iterations) ==
    [processed_text |-> processed_text, token_count |-> token_count,
     iterations |-> iterations]

\* processed_text = text; token_count = estimate_tokens(processed_text, model)
QuestionsBegin ==
    /\ ret.op = "none"
    /\ ret' = Out("while", Locals(arg.text,
                                  estimate_tokens(Content(arg.text), arg.estimator), 0))
    /\ UNCHANGED arg
    /\ Idle

\* The body of `while token_count > context_limit - 1000`: processed_text
\* is replaced by the joined chunks, token_count is not assigned; an
\* unknown strategy raises out of the function.
QuestionsReduce ==
    /\ ret.op = "while"
    /\ ret.value.token_count > get_context_limit("default") - ChunkReserve
    /\ ret.value.iterations < MaxIterations
    /\ LET processed_chunks ==
               summarize_and_chunk_by(ret.value.processed_text, arg.estimator,
                                      arg.strategy)
       IN  ret' = IF processed_chunks.op = "ValueError"
                  THEN Out("ValueError", ret.value)
                  ELSE Out("while", Locals(JoinChunks(processed_chunks.value),
                                           ret.value.token_count,
                                           ret.value.iterations + 1))
    /\ UNCHANGED arg
    /\ Idle

\* The loop is left (or never entered): the questions are asked of
\* processed_text and the function returns.
QuestionsAsk ==
    /\ ret.op = "while"
    /\ ret.value.token_count <= get_context_limit("default") - ChunkReserve
    /\ ret' = Out("extract_questions", ret.value)
    /\ UNCHANGED arg
    /\ Idle

NextQuestions ==
    \/ QuestionsBegin
    \/ QuestionsReduce
    \/ QuestionsAsk

SpecQuestions == InitSections /\ [][NextQuestions]_vars

\* C40: extract_questions terminates for every text, one above the
\* context limit minus 1000 tokens included: its size-reduction loop is
\* left after finitely many iterations.  The loop's test reads token_count
\* alone, so the loop is left only if an iteration that comes back to the
\* test has changed token_count; an iteration that leaves it as it was is
\* followed by another, without end.
C40_ReductionLoopIsLeft ==
    [][(ret.op = "while" /\ ret'.op = "while") =>
          ret'.value.token_count # ret.value.token_count]_vars

====
